---------------------------- MODULE Spec2Model ----------------------------
(***************************************************************************)
(* DummyJSON API test suite: the ProductsAPI client wrapper                *)
(* (lib/api/products-api.ts), the remote service it talks to, the          *)
(* assertion helpers and the schema validator, and the test cases that     *)
(* drive them under the runner's configuration.                            *)
(*                                                                         *)
(* Strings that the code inspects or concatenates are sequences of tokens  *)
(* (<<"/", "products", "/", "1">> is "/products/1"); an optional value is  *)
(* <<>> (undefined) or <<v>>; decimal numbers are counted in hundredths.   *)
(***************************************************************************)
EXTENDS Integers, Sequences, FiniteSets, TLC

VARIABLES
    db,         \* the remote service's collection: [total]
    pending,    \* the wrapper calls in progress, oldest first
    call,       \* the arguments of the call that settled last
    request,    \* the request that call issued
    resp,       \* the response to it: <<>> or <<response>>
    outcome,    \* how that call ended: [kind, ...]
    sent,       \* the number of requests handed to the request context
    nCalls,     \* invocations so far
    db0,        \* the collection as it was when the run began
    persists,   \* whether the service stores what a mutation call does
    config,     \* the run's configuration: [retries, workers, grep]
    loaded,     \* the spec files of the test run
    worker,     \* per worker process: its file, its test, the test's progress
    productsAPI,\* per worker process: the describe-level variable productsAPI
    ajv,        \* per process: the schemas its ajv instance has compiled
    verdict,    \* per test case: "pending" | "passed" | "failed"
    faults,     \* rejected calls, timeouts and slow responses of the run
    applied     \* the helper applications made: <<[name, ..., result]>>

wrapperVars == <<pending, call, request, resp, outcome, sent, nCalls>>
suiteVars == <<db0, persists, config, loaded, worker, productsAPI, verdict, faults>>
helperVars == <<applied>>
vars == <<db, wrapperVars, suiteVars, ajv, helperVars>>

---------------------------------------------------------------------------
(* Bounds of the model *)

MaxCalls == 3
MaxPending == 2
MaxTotal == 3
MaxWorkers == 2
MaxFaults == 1

---------------------------------------------------------------------------
(* Values *)

None == <<>>
Some(v) == <<v>>

DefaultLimit == 30
DefaultSkip == 0

Min(a, b) == IF a <= b THEN a ELSE b

\* A decimal number (price, rating, percentage) counted in hundredths.
Dec(units, hundredths) == units * 100 + hundredths

\* JavaScript truthiness of an optional string: undefined and "" are falsy.
Truthy(optStr) == optStr # None /\ optStr[1] # <<>>

\* Template-literal conversion `${v}` of an optional string.
TemplateStr(optStr) == IF optStr = None THEN <<"undefined">> ELSE optStr[1]

\* Template-literal conversion `${n}` of an integer.
TemplateNum(n) == <<ToString(n)>>

\* A property read off an object: <<>> when the object has no such property.
Get(obj, field) == IF field \in DOMAIN obj THEN Some(obj[field]) ELSE None

\* An optional member read off an object: undefined when the object has no
\* such member.
Prop(obj, field) == IF field \in DOMAIN obj THEN obj[field] ELSE None

\* obj with field f set to v, and obj without field f (f undefined).
With(obj, f, v) == [g \in {f} |-> v] @@ obj
Without(obj, f) == [g \in DOMAIN obj \ {f} |-> obj[g]]

\* String.prototype.toLowerCase, token by token.
LowerToken(tok) ==
    CASE tok \in {"Phone", "PHONE"} -> "phone"
      [] tok \in {"Apple", "APPLE"} -> "apple"
      [] tok \in {"Beauty", "BEAUTY"} -> "beauty"
      [] tok = "SMARTPHONE" -> "smartphone"
      [] tok = "S" -> "s"
      [] tok = "Sam" -> "sam"
      [] tok = "Oil" -> "oil"
      [] tok = "An" -> "an"
      [] tok = "A" -> "a"
      [] tok = "Lamp" -> "lamp"
      [] tok = "Desk" -> "desk"
      [] tok = "Smart" -> "smart"
      [] tok = "Co" -> "co"
      [] tok = "Product" -> "product"
      [] tok = "Description" -> "description"
      [] tok = "Brand" -> "brand"
      [] OTHER -> tok

toLowerCase(str) == [i \in 1..Len(str) |-> LowerToken(str[i])]

\* String.prototype.toUpperCase, token by token.
toUpperCase(str) ==
    [i \in 1..Len(str) |->
        CASE str[i] \in {"beauty", "Beauty"} -> "BEAUTY"
          [] str[i] \in {"laptops", "Laptops"} -> "LAPTOPS"
          [] str[i] = "smartphone" -> "SMARTPHONE"
          [] str[i] = "s" -> "S"
          [] str[i] = "fragrances" -> "FRAGRANCES"
          [] OTHER -> str[i]]

\* String.prototype.includes
includes(str, sub) ==
    \E i \in 0..(Len(str) - Len(sub)) : SubSeq(str, i + 1, i + Len(sub)) = sub

\* String.prototype.trim: the white space and the line terminators at both
\* ends are dropped.  The characters that have no escape of their own are
\* the tokens of their code points: U+000B (\v), U+00A0 (no-break space),
\* U+FEFF (byte order mark), the space separators U+1680, U+2000 to U+200A,
\* U+202F, U+205F and U+3000, and the separators U+2028 and U+2029.
WhiteSpace ==
    {" ", "\t", "\n", "\r", "\f", "\\u000B", "\\u00A0", "\\uFEFF", "\\u1680",
     "\\u2000", "\\u2001", "\\u2002", "\\u2003", "\\u2004", "\\u2005", "\\u2006",
     "\\u2007", "\\u2008", "\\u2009", "\\u200A", "\\u2028", "\\u2029", "\\u202F",
     "\\u205F", "\\u3000"}

RECURSIVE trimStart(_)
trimStart(str) ==
    IF str # <<>> /\ Head(str) \in WhiteSpace THEN trimStart(Tail(str)) ELSE str

RECURSIVE trimEnd(_)
trimEnd(str) ==
    IF str # <<>> /\ str[Len(str)] \in WhiteSpace
    THEN trimEnd(SubSeq(str, 1, Len(str) - 1))
    ELSE str

trim(str) == trimEnd(trimStart(str))

\* A category as a caller holds it: a string, an object whose members slug
\* and name are optional, or undefined.
StringCategory(s) == [tag |-> "string", value |-> s]
ObjectCategory(slug, name) == [tag |-> "object", slug |-> slug, name |-> name]
UndefinedCategory == [tag |-> "undefined"]

\* The category identifiers the tests name.
smartphones == <<"smartphone", "s">>
laptops == <<"laptops">>
fragrances == <<"fragrances">>

---------------------------------------------------------------------------
(* Inputs the callers draw from *)

\* paginationData.largeLimit: the largest page size the suite asks for and
\* expects echoed.
largeLimit == 100

Limits == {None, Some(0), Some(2), Some(largeLimit), Some(largeLimit + 1)}
Skips == {None, Some(-1), Some(0), Some(2)}
Ids == {1, 999999}
QueryLength == 200
LongQuery == [i \in 1..QueryLength |-> "a"]
Queries == {<<>>, <<"&">>, LongQuery}
Categories ==
    { StringCategory(smartphones),
      StringCategory(<<"beauty", "?", "limit=0">>),
      ObjectCategory(Some(<<"beauty">>), Some(<<"Beauty">>)),
      ObjectCategory(Some(<<>>), Some(<<"Beauty">>)) }
Payloads == { [title |-> <<"Test Product">>, price |-> Dec(0, 0)] }

Statuses == {199, 299, 300}

StatusText(status) ==
    CASE status = 200 -> "OK"
      [] status = 201 -> "Created"
      [] status = 404 -> "Not Found"
      [] status = 500 -> "Internal Server Error"
      [] OTHER -> ""

JsonHeaders == [h \in {"content-type"} |-> <<"application/json", "; charset=utf-8">>]
HtmlHeaders == [h \in {"content-type"} |-> <<"text/html">>]

\* A body is the raw payload of a response: JSON text (its parsed value
\* in val) or anything else (an HTML error page, an empty body).
JsonBody(v) == [json |-> TRUE, val |-> v]
TextBody(t) == [json |-> FALSE, val |-> t]

ErrorBody(msg) == JsonBody([message |-> msg])

Response(status, headers, body) ==
    [status |-> status, statusText |-> StatusText(status),
     headers |-> headers, body |-> body]

---------------------------------------------------------------------------
(* The remote service.  Its behaviour is what the repository documents of  *)
(* it: the listing shape, the 404 of an unknown id, search and category    *)
(* listings, and mutations that are answered as if they were done.         *)

\* The collection is empty or holds MaxTotal products.
Datasets == [total : {0, MaxTotal}]

\* What a stored product is about: the catalogue repeats after three.
Kind(id) == ((id - 1) % 3) + 1

\* A stored product (interface Product); the brand is optional.
Product(id) ==
    LET common ==
          [id |-> id,
           price |-> Dec(9, 99),
           discountPercentage |-> Dec(10, 0),
           rating |-> Dec(4, 0),
           stock |-> 5,
           thumbnail |-> <<"https://", "cdn", "/", "thumbnail.png">>,
           images |-> << <<"https://", "cdn", "/", "1.png">> >>]
    IN CASE Kind(id) = 1 ->
              [title |-> <<"i", "Phone", " ", "9">>,
               description |-> <<"An", " ", "apple", " ", "smart", "phone">>,
               brand |-> <<"Apple">>,
               category |-> smartphones] @@ common
         [] Kind(id) = 2 ->
              [title |-> <<"Sam", "sung", " ", "laptop">>,
               description |-> <<"A", " ", "laptop">>,
               brand |-> <<"Sam", "sung">>,
               category |-> laptops] @@ common
         [] OTHER ->
              [title |-> <<"perfume", " ", "Oil">>,
               description |-> <<"A", " ", "perfume">>,
               category |-> fragrances] @@ common

\* The page of the collection from offset skip, at most size entries.
Page(skip, size, total) ==
    [i \in 1..(IF Min(skip + size, total) > skip
               THEN Min(skip + size, total) - skip ELSE 0) |-> Product(skip + i)]

\* A listing: the page from the offset asked for, the count of the whole
\* collection, and the skip and the limit of the request.
ServiceListing(limit, skip, d) ==
    Response(200, JsonHeaders,
             JsonBody([products |-> Page(skip, limit, d.total),
                       total |-> d.total,
                       skip |-> skip,
                       limit |-> limit]))

\* The page sizes and offsets for which a listing is documented: a positive
\* limit up to the largest the suite expects echoed, and a skip that is not
\* negative.  What the service does with a limit of 0, with a larger limit
\* (it may enforce a maximum) or with a negative skip is its own.
Paginates(limit, skip) == limit >= 1 /\ limit <= largeLimit /\ skip >= 0

\* The stored products, in the order of their ids.
Stored(d) == [i \in 1..d.total |-> Product(i)]

\* A listing of products that is not paged: all of them, from offset 0.
Unpaged(products) ==
    Response(200, JsonHeaders,
             JsonBody([products |-> products,
                       total |-> Len(products),
                       skip |-> 0,
                       limit |-> Len(products)]))

\* Search: the products whose title or description contains the query,
\* whatever the letter case.
ServiceSearch(q, d) ==
    Unpaged(SelectSeq(Stored(d),
                      LAMBDA p : \/ includes(toLowerCase(p.title), toLowerCase(q))
                                 \/ includes(toLowerCase(p.description), toLowerCase(q))))

\* The category object of a slug.
CategoryOf(slug) ==
    [tag |-> "object",
     slug |-> Some(slug),
     name |-> Some(slug),
     url |-> Some(<<"https://dummyjson.com", "/", "products", "/", "category", "/">> \o slug)]

\* The categories of the stored products, in the order of their first product.
ServiceCategories(d) ==
    Response(200, JsonHeaders,
             JsonBody([i \in 1..Min(d.total, 3) |-> CategoryOf(Product(i).category)]))

\* The products of a category: those whose category is the identifier.
ServiceCategory(slug, d) ==
    Unpaged(SelectSeq(Stored(d), LAMBDA p : p.category = slug))

\* The ids the path token names among the stored products (none or one).
Resolve(token, d) == {i \in 1..d.total : ToString(i) = token}

NotFound(token) == Response(404, JsonHeaders, ErrorBody(<<"not found", token>>))

ServiceGet(token, d) ==
    IF Resolve(token, d) = {} THEN NotFound(token)
    ELSE Response(200, JsonHeaders,
                  JsonBody(Product(CHOOSE i \in Resolve(token, d) : TRUE)))

ServiceAdd(payload, d) ==
    Response(201, JsonHeaders, JsonBody(payload @@ Product(d.total + 1)))

ServiceUpdate(token, payload, d) ==
    IF Resolve(token, d) = {} THEN NotFound(token)
    ELSE Response(200, JsonHeaders,
                  JsonBody(payload @@ Product(CHOOSE i \in Resolve(token, d) : TRUE)))

ServiceDelete(token, d) ==
    IF Resolve(token, d) = {} THEN NotFound(token)
    ELSE Response(200, JsonHeaders,
                  JsonBody([isDeleted |-> TRUE, deletedOn |-> <<"2024-01-01T00:00:00.000Z">>]
                           @@ Product(CHOOSE i \in Resolve(token, d) : TRUE)))

IsItemPath(path) ==
    /\ Len(path) = 4
    /\ SubSeq(path, 1, 3) = <<"/", "products", "/">>
    /\ path[4] \notin {"search", "categories", "category", "add"}

\* '?' begins the query of a URL, '#' its fragment, '/' parts its segments.
Delimiters == {"/", "?", "#"}

\* What follows /products/category/ in a path.
AfterCategory(path) == SubSeq(path, 6, Len(path))

\* /products/category/<one segment>
IsCategoryPath(path) ==
    /\ Len(path) >= 6
    /\ SubSeq(path, 1, 5) = <<"/", "products", "/", "category", "/">>
    /\ \A i \in 6..Len(path) : path[i] \notin Delimiters

\* The answers the service is documented to give to a request; none where
\* the repository documents no behaviour (then any response may come).
ServiceResponses(req, d) ==
    CASE req.method = "GET" /\ req.path = <<"/", "products">> /\ "params" \in DOMAIN req ->
             IF Paginates(req.params.limit, req.params.skip)
             THEN {ServiceListing(req.params.limit, req.params.skip, d)}
             ELSE {}
      [] req.method = "GET" /\ req.path = <<"/", "products", "/", "search">>
           /\ "params" \in DOMAIN req ->
             {ServiceSearch(req.params.q, d)}
      [] req.method = "GET" /\ req.path = <<"/", "products", "/", "categories">> ->
             {ServiceCategories(d)}
      [] req.method = "GET" /\ IsCategoryPath(req.path) ->
             {ServiceCategory(AfterCategory(req.path), d)}
      [] req.method = "GET" /\ IsItemPath(req.path) -> {ServiceGet(req.path[4], d)}
      [] req.method = "POST" /\ req.path = <<"/", "products", "/", "add">> ->
             {ServiceAdd(req.data, d)}
      [] req.method \in {"PUT", "PATCH"} /\ IsItemPath(req.path) ->
             {ServiceUpdate(req.path[4], req.data, d)}
      [] req.method = "DELETE" /\ IsItemPath(req.path) -> {ServiceDelete(req.path[4], d)}
      [] OTHER -> {}

\* The collection after the service handled a request.  A success response
\* does not imply durable storage and a later read is not guaranteed to
\* reflect a prior write: the service either stores nothing, or it stores
\* what a mutation does (of the collection the model keeps the size, which a
\* create and a delete change).
ServiceAfter(req, d, stores) ==
    IF ~stores THEN d
    ELSE CASE req.method = "POST" /\ req.path = <<"/", "products", "/", "add">> ->
                  [d EXCEPT !.total = @ + 1]
           [] req.method = "DELETE" /\ IsItemPath(req.path)
                /\ Resolve(req.path[4], d) # {} ->
                  [d EXCEPT !.total = @ - 1]
           [] OTHER -> d

\* What else may come back for a request that completes: any status with a
\* JSON or a non-JSON body (a gateway, a proxy, an overloaded server).
OtherResponses ==
    {Response(s, JsonHeaders, ErrorBody(<<"error">>)) : s \in Statuses}
    \cup {Response(502, HtmlHeaders, TextBody("<html>"))}

---------------------------------------------------------------------------
(* Assertion helpers (class ProductAssertions): TRUE when the helper       *)
(* returns, FALSE when one of its expectations raises.  Numbers of the     *)
(* model are integers.                                                     *)

\* How a helper ends: it returns, or an expectation raises.
Verdict(passes) == IF passes THEN "returned" ELSE "assertion"

\* /^https?:\/\/.+/
IsURL(str) == Len(str) >= 2 /\ str[1] \in {"http://", "https://"}

IsListing(data) == {"products", "total", "skip", "limit"} \subseteq DOMAIN data

\* Mutant: the brand is required like the other strings.
assertValidProductRequiringBrand(product) ==
    /\ Get(product, "id") # None /\ product.id > 0
    /\ Truthy(Get(product, "title"))
    /\ Truthy(Get(product, "description"))
    /\ Get(product, "price") # None /\ product.price > 0
    /\ Get(product, "discountPercentage") # None /\ product.discountPercentage >= 0
    /\ Get(product, "rating") # None /\ product.rating >= 0 /\ product.rating <= Dec(5, 0)
    /\ Get(product, "stock") # None /\ product.stock >= 0
    /\ Truthy(Get(product, "brand"))
    /\ Truthy(Get(product, "category"))
    /\ Truthy(Get(product, "thumbnail"))
    /\ Get(product, "images") # None

\* TRUE when the helper returns.  An expectation on a number raises when
\* the field is undefined; Array.isArray holds of every images value of the
\* model but undefined.
assertValidProduct(product) ==
    /\ Get(product, "id") # None /\ product.id > 0
    /\ Truthy(Get(product, "title"))
    /\ Truthy(Get(product, "description"))
    /\ Get(product, "price") # None /\ product.price > 0
    /\ Get(product, "discountPercentage") # None /\ product.discountPercentage >= 0
    /\ Get(product, "rating") # None /\ product.rating >= 0 /\ product.rating <= Dec(5, 0)
    /\ Get(product, "stock") # None /\ product.stock >= 0
    /\ Truthy(Get(product, "brand")) => Truthy(Get(product, "brand"))
    /\ Truthy(Get(product, "category"))
    /\ Truthy(Get(product, "thumbnail"))
    /\ Get(product, "images") # None

\* Mutant: a listing with total = 0 is accepted.
assertValidProductsResponseAllowingEmpty(response) ==
    /\ IsListing(response)
    /\ response.total >= 0
    /\ response.skip >= 0
    /\ response.limit > 0
    /\ Len(response.products) <= response.limit

assertValidProductsResponse(response) ==
    /\ IsListing(response)
    /\ response.total > 0
    /\ response.skip >= 0
    /\ response.limit > 0
    /\ Len(response.products) <= response.limit

\* `if (expected.f) expect(actual.f).toBe(expected.f)`: a field is compared
\* only when its expected value is truthy.
TruthyField(obj, field) ==
    /\ field \in DOMAIN obj
    /\ IF field \in {"price", "rating", "stock"} THEN obj[field] # 0 ELSE obj[field] # <<>>

\* Mutant: every field that expected contains is compared.
assertProductsMatchEveryFieldPresent(actual, expected) ==
    \A f \in {"title", "price", "description", "rating", "stock", "brand", "category"} :
        f \in DOMAIN expected => Get(actual, f) = Some(expected[f])

assertProductsMatch(actual, expected) ==
    \A f \in {"title", "price", "description", "rating", "stock", "brand", "category"} :
        TruthyField(expected, f) => Get(actual, f) = Some(expected[f])

assertPagination(response, expectedSkip, expectedLimit) ==
    /\ response.skip = expectedSkip
    /\ response.limit = expectedLimit
    /\ Len(response.products) <= expectedLimit

\* Mutant: the categories are compared after lowercasing.
assertProductsInCategoryIgnoringCase(products, category) ==
    \A i \in 1..Len(products) :
        /\ Get(products[i], "category") # None
        /\ toLowerCase(products[i].category) = toLowerCase(category)

\* Mutant: a list without products is refused.
assertProductsInCategoryNonEmpty(products, category) ==
    /\ products # <<>>
    /\ \A i \in 1..Len(products) : Get(products[i], "category") = Some(category)

\* TRUE when the helper returns: toBe is strict equality.
assertProductsInCategory(products, category) ==
    \A i \in 1..Len(products) : Get(products[i], "category") = Some(category)

\* How the helper ends: "returned", "assertion" when the expectation on a
\* product raises, "typeError" when toLowerCase is called on an undefined
\* title, description or brand.  forEach visits the products in order and
\* the first one that raises ends the helper.
RECURSIVE assertProductsMatchSearch(_, _)
assertProductsMatchSearch(products, searchTerm) ==
    IF products = <<>> THEN "returned"
    ELSE LET product == Head(products)
             searchableTerm == toLowerCase(searchTerm)
         IN
         IF \/ Get(product, "title") = None
            \/ Get(product, "description") = None
            \/ Get(product, "brand") = None
         THEN "typeError"
         ELSE IF ~ \/ includes(toLowerCase(product.title), searchableTerm)
                   \/ includes(toLowerCase(product.description), searchableTerm)
                   \/ includes(toLowerCase(product.brand), searchableTerm)
         THEN "assertion"
         ELSE assertProductsMatchSearch(Tail(products), searchTerm)

\* The identifier the category tests derive,
\* `typeof cat === 'string' ? cat : (cat.slug || cat.name)`: the string, the
\* slug when it is truthy, else the name, which is undefined (<<>>) when the
\* object has none.
CanonicalName(category) ==
    IF category.tag = "string" THEN Some(category.value)
    ELSE IF Truthy(Prop(category, "slug")) THEN Prop(category, "slug")
    ELSE Prop(category, "name")

---------------------------------------------------------------------------
(* Test data and utilities (test-data, utils)                              *)

sampleProduct ==
    [title |-> <<"Test Product">>,
     description |-> <<"This is a test product for API testing">>,
     price |-> Dec(99, 99),
     discountPercentage |-> Dec(10, 50),
     rating |-> Dec(4, 50),
     stock |-> 100,
     brand |-> <<"Test Brand">>,
     category |-> smartphones]

testCategories ==
    << smartphones, laptops, fragrances, <<"skincare">>, <<"groceries">> >>

searchQueries ==
    [valid |-> <<"phone">>,
     noResults |-> <<"xyznonexistent123">>,
     partial |-> <<"sam">>,
     multiWord |-> <<"i", "Phone", " ", "9">>]

knownProductIds == [valid |-> 1, invalid |-> 999999, boundary |-> 0]

paginationData ==
    [defaultLimit |-> 30, customLimit |-> 10, largeLimit |-> 100,
     skipFirst |-> 10, skipSecond |-> 20]

\* Math.random() is a binary fraction in [0, 1): the model draws the
\* multiples of 1/262144 (2^-18).  On these, and with whole numbers within
\* a few thousand for the other operands, every product and sum below is
\* exact in double precision, so the arithmetic of the integers is the
\* arithmetic of the code.  The greatest draw is near enough to 1 for a
\* price to round up to the maximum.
RandomScale == 262144

\* Math.floor(random * n)
FloorOf(random, n) == (random * n) \div RandomScale

\* Math.round(num / den): the nearest integer, halves going up.
Round(num, den) == (2 * num + den) \div (2 * den)

\* generateRandomProductTitle(); Date.now() is the clock in milliseconds.
generateRandomProductTitle(randomA, randomN, now) ==
    LET adjectives == <<"Amazing", "Premium", "Professional", "Deluxe", "Ultimate">>
        nouns == <<"Gadget", "Device", "Product", "Item", "Tool">>
        randomAdj == adjectives[FloorOf(randomA, Len(adjectives)) + 1]
        randomNoun == nouns[FloorOf(randomN, Len(nouns)) + 1]
        timestamp == now
    IN <<randomAdj, " ", randomNoun, " ">> \o TemplateNum(timestamp)

\* generateRandomPrice(min, max), min and max in whole units: the price in
\* hundredths, Math.round((Math.random() * (max - min) + min) * 100) / 100.
\* The whole units of the sum are multiplied and rounded apart from its
\* fraction, which keeps every intermediate number within 32 bits.
generateRandomPrice(random, min, max) ==
    LET span == random * (max - min)
        units == span \div RandomScale + min
        fraction == span % RandomScale
    IN units * 100 + Round(fraction * 100, RandomScale)

\* String.prototype.split(' ')
RECURSIVE split(_)
split(str) ==
    IF \A i \in 1..Len(str) : str[i] # " " THEN <<str>>
    ELSE LET k == CHOOSE i \in 1..Len(str) :
                      str[i] = " " /\ \A j \in 1..(i - 1) : str[j] # " "
         IN <<SubSeq(str, 1, k - 1)>> \o split(SubSeq(str, k + 1, Len(str)))

\* `${product.title} ${product.description} ${product.brand}`.toLowerCase()
combinedText(product) ==
    toLowerCase(TemplateStr(Get(product, "title")) \o <<" ">>
                \o TemplateStr(Get(product, "description")) \o <<" ">>
                \o TemplateStr(Get(product, "brand")))

\* new Date(str).toString() !== 'Invalid Date' for the date strings of the
\* model: an ISO 8601 timestamp parses, other text does not.
IsDate(str) ==
    str \in { <<"2024-01-01T00:00:00.000Z">>, <<"2025-06-30T12:00:00.000Z">> }

---------------------------------------------------------------------------
(* The schema validator (ajv_schema_validator).  A validated body is the   *)
(* sequence of its members in the order the object holds them; JSON values *)
(* carry their type.  A schema lists the required properties and the type  *)
(* of each property, in the order the schema document has them.            *)

Num(n) == [type |-> "number", num |-> n]
Str(str) == [type |-> "string", str |-> str]
Arr(items) == [type |-> "array", items |-> items]

Member(name, value) == [name |-> name, value |-> value]

\* name in body
Has(body, name) == \E i \in 1..Len(body) : body[i].name = name

\* body[name]
ValueOf(body, name) == body[CHOOSE i \in 1..Len(body) : body[i].name = name].value

\* Mutant: allErrors off: validation stops at the first violation.
allErrorsOff == FALSE

\* new Ajv({ allErrors: true, strict: true, coerceTypes: false })
allErrors == TRUE

requiredErrors(data, schema) ==
    LET missing == SelectSeq(schema.required, LAMBDA f : ~Has(data, f)) IN
    [i \in 1..Len(missing) |->
        [instancePath |-> <<>>,
         message |-> <<"must have required property '", missing[i], "'">>]]

typeErrors(data, schema) ==
    LET wrong == SelectSeq(schema.properties,
                           LAMBDA q : Has(data, q.name) /\ ValueOf(data, q.name).type # q.type)
    IN [i \in 1..Len(wrong) |->
           [instancePath |-> <<"/", wrong[i].name>>,
            message |-> <<"must be ", wrong[i].type>>]]

\* new Ajv({ ..., coerceTypes: false })
coerceTypes == FALSE

\* The body as validation leaves it: with coerceTypes a number where the
\* schema names a string is replaced by its decimal text; without, nothing
\* is written to the body.
coerced(data, schema) ==
    IF coerceTypes
    THEN [i \in 1..Len(data) |->
             IF /\ data[i].value.type = "number"
                /\ \E j \in 1..Len(schema.properties) :
                       schema.properties[j] = [name |-> data[i].name, type |-> "string"]
             THEN Member(data[i].name, Str(<<ToString(data[i].value.num)>>))
             ELSE data[i]]
    ELSE data

\* Mutant: the instance is created in validateResponseSchema, anew for
\* every call, and has compiled nothing.
ajvPerCall(created) == {}

\* const ajv = new Ajv({...}): the instance is created once, when the module
\* is loaded, and every call compiles with it as the calls before left it.
ajvOfModule(created) == created

\* ajv.compile(schema) on an instance that has compiled the schema objects
\* in `cache`: the instance keeps the validator it built for a schema
\* object, under that object; the same object is answered with that
\* validator and nothing is built.  Another object is compiled, whether its
\* document equals that of a compiled one or not.
compile(cache, schema) ==
    [built |-> schema \notin cache, cache |-> cache \cup {schema}]

\* validate(response): the verdict and validate.errors (null after a
\* successful validation).
validate(data, schema) ==
    LET errors == requiredErrors(data, schema) \o typeErrors(data, schema)
        reported == IF allErrors \/ errors = <<>> THEN errors ELSE <<Head(errors)>>
    IN [valid |-> errors = <<>>,
        errors |-> IF errors = <<>> THEN None ELSE Some(reported)]

\* `Path: ${error.instancePath || 'root'} - ${error.message}`
PathLine(error) ==
    <<"Path: ">> \o (IF error.instancePath = <<>> THEN <<"root">> ELSE error.instancePath)
    \o <<" - ">> \o error.message

\* The text of a string between the quotes of its JSON form: a quotation
\* mark and a backslash (tokens of their own) are escaped.
Escape(str) ==
    [i \in 1..Len(str) |->
        CASE str[i] = "\"" -> "\\\""
          [] str[i] = "\\" -> "\\\\"
          [] OTHER -> str[i]]

\* JSON.stringify of a string.
Quote(str) == <<"\"">> \o Escape(str) \o <<"\"">>

\* JSON.stringify(v, null, 2) of a number or a string.
stringifyValue(v) == IF v.type = "number" THEN <<ToString(v.num)>> ELSE Quote(v.str)

\* The lines of a value at the given indentation, after the text `lead`
\* (the member's name, or nothing for an element), with `trail` (a comma or
\* nothing) after it.  An array has a line per element, two further in.
Lines(indent, lead, v, trail) ==
    IF v.type # "array" THEN << indent \o lead \o stringifyValue(v) \o trail >>
    ELSE IF v.items = <<>> THEN << indent \o lead \o <<"[]">> \o trail >>
    ELSE << indent \o lead \o <<"[">> >>
         \o [i \in 1..Len(v.items) |->
                indent \o <<"  ">> \o stringifyValue(v.items[i])
                \o (IF i < Len(v.items) THEN <<",">> ELSE <<>>)]
         \o << indent \o <<"]">> \o trail >>

RECURSIVE Flatten(_)
Flatten(seqs) == IF seqs = <<>> THEN <<>> ELSE Head(seqs) \o Flatten(Tail(seqs))

\* JSON.stringify(response, null, 2): the members in the order the object
\* holds them, each indented by two.
stringify(response) ==
    IF response = <<>> THEN << <<"{}">> >>
    ELSE << <<"{">> >>
         \o Flatten([i \in 1..Len(response) |->
                Lines(<<"  ">>, Quote(<<response[i].name>>) \o <<": ">>,
                      response[i].value,
                      IF i < Len(response) THEN <<",">> ELSE <<>>)])
         \o << <<"}">> >>

\* Mutant: the verdict is returned, valid or not.
validateResponseSchemaReturningFalse(response, schema) ==
    [kind |-> "returned", value |-> validate(response, schema).valid]

\* The outcome of validateResponseSchema: the value returned, or the Error
\* thrown with its message as lines.
validateResponseSchema(response, schema) ==
    LET v == validate(response, schema) IN
    IF ~v.valid /\ v.errors # None
    THEN [kind |-> "thrown",
          message |-> << <<"Schema validation failed:">> >>
                      \o [i \in 1..Len(v.errors[1]) |-> PathLine(v.errors[1][i])]
                      \o << <<>>, <<"Actual Response:">> >>
                      \o stringify(response)]
    ELSE [kind |-> "returned", value |-> v.valid]

---------------------------------------------------------------------------
(* The client wrapper: class ProductsAPI (the envelope-returning one)      *)

\* Mutant: `limit || 30`, `skip || 0`: a falsy argument counts as omitted.
getAllProductsRequestDefaulting(limit, skip) ==
    [method |-> "GET", path |-> <<"/", "products">>,
     params |-> [limit |-> IF limit = None \/ limit = Some(0) THEN DefaultLimit ELSE limit[1],
                 skip |-> IF skip = None \/ skip = Some(0) THEN DefaultSkip ELSE skip[1]]]

\* Mutant: the two query parameters exchanged.
getAllProductsRequestSwapped(limit, skip) ==
    [method |-> "GET", path |-> <<"/", "products">>,
     params |-> [limit |-> IF skip = None THEN DefaultSkip ELSE skip[1],
                 skip |-> IF limit = None THEN DefaultLimit ELSE limit[1]]]

\* The request each method hands to the request context.
getAllProductsRequest(limit, skip) ==
    [method |-> "GET", path |-> <<"/", "products">>,
     params |-> [limit |-> IF limit = None THEN DefaultLimit ELSE limit[1],
                 skip |-> IF skip = None THEN DefaultSkip ELSE skip[1]]]

getProductByIdRequest(id) ==
    [method |-> "GET", path |-> <<"/", "products", "/">> \o TemplateNum(id)]

searchProductsRequest(query) ==
    [method |-> "GET", path |-> <<"/", "products", "/", "search">>,
     params |-> [q |-> query]]

getCategoriesRequest ==
    [method |-> "GET", path |-> <<"/", "products", "/", "categories">>]

\* const categorySlug = typeof category === 'string' ? category : category.slug
categorySlug(category) ==
    IF category.tag = "string" THEN category.value
    ELSE TemplateStr(Prop(category, "slug"))

\* The same line when the argument is undefined: reading `category.slug`
\* raises a TypeError and the method ends before it hands over a request.
CallThrows(c) ==
    c.op = "getProductsByCategory" /\ c.category.tag = "undefined"

getProductsByCategoryRequest(category) ==
    [method |-> "GET",
     path |-> <<"/", "products", "/", "category", "/">> \o categorySlug(category)]

addProductRequest(product) ==
    [method |-> "POST", path |-> <<"/", "products", "/", "add">>, data |-> product]

updateProductRequest(id, updates) ==
    [method |-> "PUT", path |-> <<"/", "products", "/">> \o TemplateNum(id),
     data |-> updates]

\* Mutant: the partial update sent with the method of the full update.
patchProductRequestAsPut(id, updates) ==
    [method |-> "PUT", path |-> <<"/", "products", "/">> \o TemplateNum(id),
     data |-> updates]

patchProductRequest(id, updates) ==
    [method |-> "PATCH", path |-> <<"/", "products", "/">> \o TemplateNum(id),
     data |-> updates]

deleteProductRequest(id) ==
    [method |-> "DELETE", path |-> <<"/", "products", "/">> \o TemplateNum(id)]

BuildRequest(c) ==
    CASE c.op = "getAllProducts" -> getAllProductsRequest(c.limit, c.skip)
      [] c.op = "getProductById" -> getProductByIdRequest(c.id)
      [] c.op = "searchProducts" -> searchProductsRequest(c.query)
      [] c.op = "getCategories" -> getCategoriesRequest
      [] c.op = "getProductsByCategory" -> getProductsByCategoryRequest(c.category)
      [] c.op = "addProduct" -> addProductRequest(c.product)
      [] c.op = "updateProduct" -> updateProductRequest(c.id, c.updates)
      [] c.op = "patchProduct" -> patchProductRequest(c.id, c.updates)
      [] c.op = "deleteProduct" -> deleteProductRequest(c.id)

\* Mutant: the request is sent, and sent once more.
IssueRetrying(n, req) == [count |-> n + 2, req |-> req]

\* Mutant: the instance numbers its requests.
IssueNumbered(n, req) == [count |-> n + 1, req |-> [attempt |-> n + 1] @@ req]

\* this.request.get / post / put / patch / delete: one request goes out,
\* as it was built.
Issue(n, req) == [count |-> n + 1, req |-> req]

\* response.ok()
ResponseOk(r) == r.status >= 200 /\ r.status <= 299

\* Mutant: ok computed as `status === 200`.
MakeEnvelopeOkIs200(r) ==
    [data |-> r.body.val,
     status |-> r.status,
     ok |-> (r.status = 200),
     statusText |-> r.statusText,
     headers |-> r.headers]

\* The object literal every method returns.
MakeEnvelope(r) ==
    [data |-> r.body.val,
     status |-> r.status,
     ok |-> ResponseOk(r),
     statusText |-> r.statusText,
     headers |-> r.headers]

\* Mutant: a non-2xx response is turned into an exception.
SettleThrowingOnError(r, bodyRead) ==
    IF r.status < 200 \/ r.status > 299
    THEN [kind |-> "thrown", error |-> "status"]
    ELSE IF ~bodyRead THEN [kind |-> "thrown", error |-> "body"]
    ELSE IF r.body.json
    THEN [kind |-> "envelope",
          value |-> [data |-> r.body.val, status |-> r.status, ok |-> TRUE,
                     statusText |-> r.statusText, headers |-> r.headers]]
    ELSE [kind |-> "thrown", error |-> "json"]

\* The rest of a method once `await response.json()` has settled: json()
\* rejects when the body could not be read (the response was disposed, the
\* connection broke) and when the body is not JSON; nothing catches it.
\* Otherwise the envelope is returned.
Settle(r, bodyRead) ==
    IF ~bodyRead THEN [kind |-> "thrown", error |-> "body"]
    ELSE IF r.body.json
    THEN [kind |-> "envelope", value |-> MakeEnvelope(r)]
    ELSE [kind |-> "thrown", error |-> "json"]

\* The awaited request rejected: nothing catches it.
Reject == [kind |-> "thrown", error |-> "transport"]

NoCall == [op |-> "none"]
NoRequest == [method |-> "none"]

WrapperInit ==
    /\ pending = <<>>
    /\ call = NoCall
    /\ request = NoRequest
    /\ resp = None
    /\ outcome = [kind |-> "none"]
    /\ sent = 0
    /\ nCalls = 0

\* No test run is under way.
NoRun ==
    /\ db0 = db
    /\ persists = FALSE
    /\ config = [retries |-> 0, workers |-> 0, grep |-> None]
    /\ loaded = {}
    /\ worker = <<>>
    /\ productsAPI = <<>>
    /\ verdict = <<>>
    /\ faults = 0

Init ==
    /\ db \in Datasets
    /\ WrapperInit
    /\ NoRun
    /\ ajv = <<>>
    /\ applied = <<>>

\* A method may be invoked whenever the caller runs: whether earlier calls
\* have settled or not.
CanCall == nCalls < MaxCalls /\ Len(pending) < MaxPending

\* A method runs up to its first await: the request is built and handed
\* over.  What the caller held of the call that settled last is gone.
Start(c) ==
    /\ pending' = Append(pending, [call |-> c,
                                   req |-> Issue(sent, BuildRequest(c)).req,
                                   stage |-> "request",
                                   resp |-> None])
    /\ sent' = Issue(sent, BuildRequest(c)).count
    /\ nCalls' = nCalls + 1
    /\ call' = NoCall
    /\ request' = NoRequest
    /\ resp' = None
    /\ outcome' = [kind |-> "none"]
    /\ UNCHANGED <<db, suiteVars, ajv, helperVars>>

getAllProducts ==
    \E limit \in Limits, skip \in Skips :
        /\ CanCall
        /\ Start([op |-> "getAllProducts", limit |-> limit, skip |-> skip])

getProductById ==
    \E id \in Ids :
        /\ CanCall
        /\ Start([op |-> "getProductById", id |-> id])

searchProducts ==
    \E query \in Queries :
        /\ CanCall
        /\ Start([op |-> "searchProducts", query |-> query])

getCategories ==
    /\ CanCall
    /\ Start([op |-> "getCategories"])

getProductsByCategory ==
    \E category \in Categories :
        /\ CanCall
        /\ Start([op |-> "getProductsByCategory", category |-> category])

addProduct ==
    \E product \in Payloads :
        /\ CanCall
        /\ Start([op |-> "addProduct", product |-> product])

updateProduct ==
    \E id \in Ids, updates \in Payloads :
        /\ CanCall
        /\ Start([op |-> "updateProduct", id |-> id, updates |-> updates])

patchProduct ==
    \E id \in Ids, updates \in Payloads :
        /\ CanCall
        /\ Start([op |-> "patchProduct", id |-> id, updates |-> updates])

deleteProduct ==
    \E id \in Ids :
        /\ CanCall
        /\ Start([op |-> "deleteProduct", id |-> id])

\* The calls in progress without the i-th.
Remove(seq, i) == SubSeq(seq, 1, i - 1) \o SubSeq(seq, i + 1, Len(seq))

\* The request of a call completes with a response: the method resumes
\* after `await this.request.<verb>(...)`, calls response.json() and awaits
\* that.
Arrives(i, r) ==
    /\ pending' = [pending EXCEPT ![i].stage = "json", ![i].resp = Some(r)]
    /\ UNCHANGED <<db, call, request, resp, outcome, sent, nCalls, suiteVars, ajv,
                   helperVars>>

\* The response is the one the service is documented to give.
ResponseArrives ==
    \E i \in DOMAIN pending :
        /\ pending[i].stage = "request"
        /\ \E r \in ServiceResponses(pending[i].req, db) : Arrives(i, r)

\* The response is another one: the request has no documented answer, or a
\* gateway, a proxy or an overloaded server answered.
OtherResponseArrives ==
    \E i \in DOMAIN pending :
        /\ pending[i].stage = "request"
        /\ \E r \in OtherResponses : Arrives(i, r)

\* response.json() settles and the method ends: it returns the envelope, or
\* the rejection of json() leaves it as an exception.
Returns ==
    \E i \in DOMAIN pending, bodyRead \in BOOLEAN :
        /\ pending[i].stage = "json"
        /\ LET p == pending[i]
               o == Settle(p.resp[1], bodyRead)
           IN /\ call' = p.call
              /\ request' = p.req
              /\ resp' = p.resp
              /\ outcome' = o
        /\ pending' = Remove(pending, i)
        /\ UNCHANGED <<db, sent, nCalls, suiteVars, ajv, helperVars>>

\* The request of a call never completes (DNS, timeout, connection reset):
\* the awaited promise rejects and the method ends with that exception.
TransportFailure ==
    \E i \in DOMAIN pending :
        /\ pending[i].stage = "request"
        /\ call' = pending[i].call
        /\ request' = pending[i].req
        /\ resp' = None
        /\ outcome' = Reject
        /\ pending' = Remove(pending, i)
        /\ UNCHANGED <<db, sent, nCalls, suiteVars, ajv, helperVars>>

Next ==
    \/ getAllProducts
    \/ getProductById
    \/ searchProducts
    \/ getCategories
    \/ getProductsByCategory
    \/ addProduct
    \/ updateProduct
    \/ patchProduct
    \/ deleteProduct
    \/ ResponseArrives
    \/ OtherResponseArrives
    \/ TransportFailure
    \/ Returns

Spec == Init /\ [][Next]_vars

---------------------------------------------------------------------------
(* Properties of the wrapper                                               *)

Settled == call # NoCall
Returned == Settled /\ outcome.kind = "envelope"
Thrown == Settled /\ outcome.kind = "thrown"

\* The call that settled last got its response in full: the request
\* completed and the body was read.
Completed == resp # None /\ ~(Thrown /\ outcome.error = "body")

\* The response of the call that settled last is the service's documented
\* answer to its request.
FromService ==
    /\ resp # None
    /\ \E s \in ServiceResponses(request, db) :
           /\ s.status = resp[1].status
           /\ s.headers = resp[1].headers
           /\ s.body = resp[1].body

\* P holds of every call made and not forgotten, with the request it issued:
\* the calls in progress and the call that settled last.
EveryIssued(P(_, _)) ==
    /\ \A i \in DOMAIN pending : P(pending[i].call, pending[i].req)
    /\ Settled => P(call, request)

\* The limit and skip a getAllProducts call asks for.
AskedLimit == IF call.limit = None THEN DefaultLimit ELSE call.limit[1]
AskedSkip == IF call.skip = None THEN DefaultSkip ELSE call.skip[1]

\* C1: every invocation issues exactly one outbound request: the number of
\* requests handed to the request context always equals the number of
\* invocations, whatever the outcomes were (2xx, non-2xx, transport
\* failure) and however the calls overlap, and an envelope is always built
\* from the response to the call's own request.
C1_OneRequestPerCall ==
    /\ sent = nCalls
    /\ Returned => resp # None /\ outcome.value.data = resp[1].body.val

C1_Witness ==
    /\ Thrown
    /\ outcome.error = "transport"
    /\ call = [op |-> "getProductById", id |-> 1]
    /\ Len(pending) = 1
    /\ pending[1].call.op = "getProductById"
    /\ pending[1].call.id = 1
    /\ nCalls = 2
    /\ sent = 2

\* The table of the operations: the method, path and payload of call c.
RequestMapping(c, r) ==
    LET item == <<"/", "products", "/", ToString(c.id)>> IN
    CASE c.op = "getAllProducts" ->
             /\ r.method = "GET" /\ r.path = <<"/", "products">>
             /\ DOMAIN r = {"method", "path", "params"}
             /\ DOMAIN r.params = {"limit", "skip"}
             /\ c.limit = None => r.params.limit = 30
             /\ c.limit # None => r.params.limit = c.limit[1]
             /\ c.skip = None => r.params.skip = 0
             /\ c.skip # None => r.params.skip = c.skip[1]
      [] c.op = "getProductById" ->
             r = [method |-> "GET", path |-> item]
      [] c.op = "searchProducts" ->
             r = [method |-> "GET", path |-> <<"/", "products", "/", "search">>,
                  params |-> [q |-> c.query]]
      [] c.op = "getCategories" ->
             r = [method |-> "GET", path |-> <<"/", "products", "/", "categories">>]
      [] c.op = "getProductsByCategory" ->
             /\ r.method = "GET" /\ DOMAIN r = {"method", "path"}
             /\ Len(r.path) >= 5
             /\ SubSeq(r.path, 1, 5) = <<"/", "products", "/", "category", "/">>
             /\ c.category.tag = "string" =>
                    SubSeq(r.path, 6, Len(r.path)) = c.category.value
      [] c.op = "addProduct" ->
             r = [method |-> "POST", path |-> <<"/", "products", "/", "add">>,
                  data |-> c.product]
      [] c.op = "updateProduct" ->
             r = [method |-> "PUT", path |-> item, data |-> c.updates]
      [] c.op = "patchProduct" ->
             r = [method |-> "PATCH", path |-> item, data |-> c.updates]
      [] c.op = "deleteProduct" ->
             r = [method |-> "DELETE", path |-> item]

\* C2: each operation maps to its fixed method, path and payload.
C2_RequestMapping == EveryIssued(RequestMapping)

C2_Witness ==
    /\ Len(pending) = 2
    /\ pending[1].call.op = "patchProduct"
    /\ pending[1].req.method = "PATCH"
    /\ pending[1].req.path = <<"/", "products", "/", "1">>
    /\ pending[1].req.data = [title |-> <<"Test Product">>, price |-> 0]
    /\ pending[2].call.op = "deleteProduct"
    /\ pending[2].req = [method |-> "DELETE", path |-> <<"/", "products", "/", "999999">>]

\* C3: getProductById of an id that does not resolve returns an envelope
\* carrying the service's 404 and its error body, it does not throw; and for
\* every status the wrapper does the same: whether it returns depends on the
\* body being parsed, never on the status, and the envelope's status is the
\* response's.
C3_StatusForwarded ==
    Settled /\ Completed =>
      /\ (outcome.kind = "envelope") = resp[1].body.json
      /\ outcome.kind = "envelope" => outcome.value.status = resp[1].status
      /\ ( /\ call.op = "getProductById"
           /\ Resolve(ToString(call.id), db) = {}
           /\ FromService )
         => /\ outcome.kind = "envelope"
            /\ outcome.value.status = 404
            /\ outcome.value.data = resp[1].body.val
            /\ "message" \in DOMAIN outcome.value.data

C3_Witness ==
    /\ Returned
    /\ call.op = "getProductById"
    /\ call.id = 999999
    /\ FromService
    /\ outcome.value.status = 404
    /\ ~outcome.value.ok

\* C4: an operation raises if and only if the request did not complete;
\* whenever a response came back in full, whatever its status and body, the
\* operation returns an envelope.
C4_RaisesIffIncomplete ==
    Settled => ((outcome.kind = "thrown") <=> ~Completed)

\* C5: every envelope has exactly the fields data, status, ok, statusText
\* and headers, and ok is true if and only if 200 <= status <= 299.
C5_EnvelopeShape ==
    Returned =>
      /\ DOMAIN outcome.value = {"data", "status", "ok", "statusText", "headers"}
      /\ outcome.value.ok = (200 <= outcome.value.status /\ outcome.value.status <= 299)

C5_Witness ==
    /\ Returned
    /\ call.op = "addProduct"
    /\ outcome.value.status = 201
    /\ outcome.value.ok

\* The arguments of call c are in its request as they were given.
PassedThrough(c, r) ==
    /\ c.op = "getAllProducts" /\ c.limit # None => r.params.limit = c.limit[1]
    /\ c.op = "getAllProducts" /\ c.skip # None => r.params.skip = c.skip[1]
    /\ c.op = "searchProducts" => r.params.q = c.query

\* C6: no client-side validation or rewriting: getAllProducts sends the
\* limit and skip it was given (0, negative and oversized ones too),
\* searchProducts sends q equal to the query (empty, special characters,
\* 200 characters long), and every call issues its request.
C6_NoClientValidation ==
    /\ sent = nCalls
    /\ EveryIssued(PassedThrough)

C6_Witness ==
    /\ Len(pending) = 2
    /\ pending[1].call = [op |-> "getAllProducts", limit |-> Some(0), skip |-> Some(-1)]
    /\ pending[1].req.params = [limit |-> 0, skip |-> -1]
    /\ pending[2].call.op = "searchProducts"
    /\ Len(pending[2].call.query) = 200
    /\ pending[2].req.params.q = pending[2].call.query

\* The category path of call c ends with the canonical identifier.
CanonicalPath(c, r) ==
    c.op = "getProductsByCategory" =>
        r.path = <<"/", "products", "/", "category", "/">> \o TemplateStr(CanonicalName(c.category))

\* C7: getProductsByCategory requests /products/category/{canonical
\* identifier}: the string itself, or for a structured category its slug if
\* present (non-empty), else its name.
C7_CanonicalIdentifier == EveryIssued(CanonicalPath)

\* C8: for all valid limit/skip pairs (a positive page size up to the
\* largest one the suite asks for, 100, and a non-negative skip) the listing
\* the service returns to getAllProducts(limit, skip) passes
\* assertPagination(listing, skip, limit), the defaults 30 and 0 standing
\* for an argument left out: its echoed skip and limit equal the requested
\* values and products.length <= limit, also for the limit of 100 of the
\* large-limit test.
C8_PaginationPasses ==
    ( /\ Returned
      /\ call.op = "getAllProducts"
      /\ FromService
      /\ Paginates(AskedLimit, AskedSkip) )
    => /\ assertPagination(outcome.value.data, AskedSkip, AskedLimit)
       /\ outcome.value.data.skip = AskedSkip
       /\ outcome.value.data.limit = AskedLimit
       /\ Len(outcome.value.data.products) <= AskedLimit

C8_Witness ==
    /\ Returned
    /\ call.op = "getAllProducts"
    /\ FromService
    /\ call.limit = Some(largeLimit) /\ call.skip = Some(2)
    /\ db.total = 3
    /\ outcome.value.data.limit = 100
    /\ outcome.value.data.skip = 2
    /\ Len(outcome.value.data.products) = 1
    /\ assertPagination(outcome.value.data, 2, 100)

\* C26: the wrapper is stateless and safe to retry: a call made with the
\* arguments of a call in progress, or of the call that settled last,
\* issues the request that call issued, whatever came back in between; and
\* a call in progress keeps its arguments and its request as they were.
C26_SafeToRetry ==
    [][/\ nCalls' = nCalls + 1 =>
            LET new == pending'[Len(pending')] IN
            /\ \A i \in DOMAIN pending :
                   pending[i].call = new.call => new.req = pending[i].req
            /\ Settled /\ call = new.call => new.req = request
       /\ Len(pending') = Len(pending) =>
            \A i \in DOMAIN pending :
                /\ pending'[i].call = pending[i].call
                /\ pending'[i].req = pending[i].req]_vars

C26_Witness ==
    /\ nCalls = 3
    /\ Len(pending) = 2
    /\ pending[1].call = [op |-> "patchProduct", id |-> 1,
                          updates |-> [title |-> <<"Test Product">>, price |-> 0]]
    /\ pending[2].call = pending[1].call
    /\ pending[2].req = pending[1].req
    /\ pending[1].stage = "json"

---------------------------------------------------------------------------
(* The second ProductsAPI of lib/api/products-api.ts: it is constructed    *)
(* with a base URL, requests `${this.baseURL}/...` and returns             *)
(* response.json().                                                        *)

baseURL == <<"https://dummyjson.com">>

BodyReturningRequest(c) ==
    CASE c.op = "getAllProducts" ->
             [method |-> "GET", url |-> baseURL \o <<"/", "products">>,
              params |-> [limit |-> IF c.limit = None THEN DefaultLimit ELSE c.limit[1],
                          skip |-> IF c.skip = None THEN DefaultSkip ELSE c.skip[1]]]
      [] c.op = "getProductById" ->
             [method |-> "GET", url |-> baseURL \o <<"/", "products", "/">> \o TemplateNum(c.id)]
      [] c.op = "searchProducts" ->
             [method |-> "GET", url |-> baseURL \o <<"/", "products", "/", "search">>,
              params |-> [q |-> c.query]]
      [] c.op = "getCategories" ->
             [method |-> "GET", url |-> baseURL \o <<"/", "products", "/", "categories">>]
      [] c.op = "getProductsByCategory" ->
             \* `${category}`: a Category object converts to '[object Object]'
             \* and undefined to 'undefined'; nothing is read off the argument
             [method |-> "GET",
              url |-> baseURL \o <<"/", "products", "/", "category", "/">>
                      \o (IF c.category.tag = "string" THEN c.category.value
                          ELSE IF c.category.tag = "undefined" THEN <<"undefined">>
                          ELSE <<"[object Object]">>)]
      [] c.op = "addProduct" ->
             [method |-> "POST", url |-> baseURL \o <<"/", "products", "/", "add">>,
              data |-> c.product]
      [] c.op = "updateProduct" ->
             [method |-> "PUT", url |-> baseURL \o <<"/", "products", "/">> \o TemplateNum(c.id),
              data |-> c.updates]
      [] c.op = "patchProduct" ->
             [method |-> "PATCH", url |-> baseURL \o <<"/", "products", "/">> \o TemplateNum(c.id),
              data |-> c.updates]
      [] c.op = "deleteProduct" ->
             [method |-> "DELETE", url |-> baseURL \o <<"/", "products", "/">> \o TemplateNum(c.id)]

\* return response.json(): the parsed body, or the rejection of json()
\* (the body could not be read, or is not JSON).
BodyReturningSettle(r, bodyRead) ==
    IF ~bodyRead THEN [kind |-> "thrown", error |-> "body"]
    ELSE IF r.body.json
    THEN [kind |-> "body", value |-> r.body.val]
    ELSE [kind |-> "thrown", error |-> "json"]

\* The two clients agree on a call and on the response to it.
SameRequest(c, issued) ==
    LET other == BodyReturningRequest(c) IN
    /\ other.url = baseURL \o issued.path
    /\ Without(other, "url") = Without(issued, "path")

SameBody(r, o) ==
    IF o.kind = "envelope"
    THEN BodyReturningSettle(r, TRUE) = [kind |-> "body", value |-> o.value.data]
    ELSE BodyReturningSettle(r, o.error # "body") = o

\* C28: the two ProductsAPI definitions are equivalent on requests and
\* bodies: for every operation and argument, a structured Category
\* included, both issue the same method, the same path relative to the base
\* URL and the same params or body, and the body-returning client returns
\* the data field of the envelope the other returns.
C28_ClientsEquivalent ==
    /\ EveryIssued(SameRequest)
    /\ Settled /\ resp # None => SameBody(resp[1], outcome)

\* The same for every call but getProductsByCategory of a structured
\* Category.
SameRequestOfStrings(c, issued) ==
    (c.op = "getProductsByCategory" => c.category.tag = "string") => SameRequest(c, issued)

ClientsEquivalentOnStrings ==
    /\ EveryIssued(SameRequestOfStrings)
    /\ Settled /\ resp # None => SameBody(resp[1], outcome)

\* decodeURIComponent: an escape stands for its character.
decodeURIComponent(str) ==
    [i \in 1..Len(str) |->
        CASE str[i] = "%20" -> " "
          [] str[i] = "%2F" -> "/"
          [] str[i] = "%3F" -> "?"
          [] str[i] = "%23" -> "#"
          [] OTHER -> str[i]]

\* The identifier of call c is one segment after /products/category/.
OneSegment(c, r) ==
    (c.op = "getProductsByCategory" /\ c.category.tag = "string") =>
        /\ SubSeq(r.path, 1, 5) = <<"/", "products", "/", "category", "/">>
        /\ \A i \in DOMAIN AfterCategory(r.path) : AfterCategory(r.path)[i] \notin Delimiters
        /\ decodeURIComponent(AfterCategory(r.path)) = c.category.value
        /\ "params" \notin DOMAIN r

\* C29: getProductsByCategory(c) always targets the category resource: for
\* every identifier c, with a space, '/', '?' or '#' in it or not, the path
\* is /products/category/ and then exactly one segment that decodes to c: no
\* further segment, no query and no fragment comes of the identifier.
C29_OneCategorySegment == EveryIssued(OneSegment)

---------------------------------------------------------------------------
(* The test cases.  A test body is a function of what its awaits have      *)
(* yielded so far (o): it names what it awaits next (a wrapper call, a     *)
(* request.get of its own, the json() of a response it holds), or ends the *)
(* test with every expectation met or with one of them raising.            *)

Call(c) == [do |-> "call", call |-> c]
RawGet(path) == [do |-> "get", req |-> [method |-> "GET", path |-> path]]
ReadJson(i) == [do |-> "json", of |-> i]
End(passed) == [do |-> "end", passed |-> passed]

\* The envelope the i-th await (a wrapper call) returned, and its data.
Env(o, i) == o[i].value
Data(o, i) == o[i].value.data

\* What the i-th await yielded: the response of a request.get, or the value
\* response.json() resolved with.
Yielded(o, i) == o[i].value

ListCall(limit, skip) == [op |-> "getAllProducts", limit |-> limit, skip |-> skip]
SearchCall(query) == [op |-> "searchProducts", query |-> query]
CategoryCall(category) == [op |-> "getProductsByCategory", category |-> category]

\* The members of a parsed product in the order of the service's document,
\* each value with its JSON type.
Json(data) ==
    LET order == <<"id", "title", "description", "category", "price",
                   "discountPercentage", "rating", "stock", "brand", "thumbnail",
                   "images", "message">>
        present == SelectSeq(order, LAMBDA f : f \in DOMAIN data)
        numbers == {"id", "price", "discountPercentage", "rating", "stock"}
    IN [i \in 1..Len(present) |->
           Member(present[i],
                  IF present[i] \in numbers THEN Num(data[present[i]])
                  ELSE IF present[i] = "images"
                  THEN Arr([j \in 1..Len(data.images) |-> Str(data.images[j])])
                  ELSE Str(data[present[i]]))]

\* fixtures/schemas/product.schema.json.  A schema is an object: `object`
\* tells it from every other object, whatever the documents say; the
\* import of a JSON module is one object per process.
singleProductSchema ==
    [object |-> "product.schema.json",
     required |-> <<"id", "title", "price">>,
     properties |-> << [name |-> "id", type |-> "number"],
                       [name |-> "title", type |-> "string"],
                       [name |-> "description", type |-> "string"],
                       [name |-> "category", type |-> "string"],
                       [name |-> "price", type |-> "number"],
                       [name |-> "brand", type |-> "string"],
                       [name |-> "thumbnail", type |-> "string"],
                       [name |-> "images", type |-> "array"] >>]

\* expect(responseTime).toBeLessThan(2000)
TwoSeconds == 2000

\* The response time a test may measure and still pass.
WithinTwoSeconds(ms) == ms < TwoSeconds

BasicTests ==
    <<"defaultPagination", "customPagination", "skipParameter", "validId", "notFound",
      "categories", "largeLimit", "secondPage", "totalCount", "imageUrls">>

\* The ids of a page: products.map(p => p.id)
IdsOf(products) == {products[i].id : i \in 1..Len(products)}

\* The test cases of 'Products API - Basic Operations'.
BasicBody(t, o) ==
    CASE t = "defaultPagination" ->
             IF o = <<>> THEN Call(ListCall(None, None))
             ELSE End(/\ assertValidProductsResponse(Data(o, 1))
                      /\ Data(o, 1).limit = paginationData.defaultLimit
                      /\ Data(o, 1).skip = 0
                      /\ Len(Data(o, 1).products) > 0
                      /\ Data(o, 1).total > 0
                      /\ \A i \in 1..Len(Data(o, 1).products) :
                             assertValidProduct(Data(o, 1).products[i])
                      /\ WithinTwoSeconds(o[1].ms))
      [] t = "customPagination" ->
             IF o = <<>> THEN Call(ListCall(Some(paginationData.customLimit), Some(0)))
             ELSE End(/\ assertValidProductsResponse(Data(o, 1))
                      /\ assertPagination(Data(o, 1), 0, paginationData.customLimit)
                      /\ Len(Data(o, 1).products) <= paginationData.customLimit)
      [] t = "skipParameter" ->
             IF o = <<>> THEN Call(ListCall(Some(10), Some(paginationData.skipFirst)))
             ELSE End(/\ assertValidProductsResponse(Data(o, 1))
                      /\ assertPagination(Data(o, 1), paginationData.skipFirst, 10))
      [] t = "validId" ->
             IF o = <<>> THEN Call([op |-> "getProductById", id |-> knownProductIds.valid])
             ELSE End(/\ Get(Data(o, 1), "id") = Some(knownProductIds.valid)
                      /\ validateResponseSchema(Json(Data(o, 1)), singleProductSchema)
                             = [kind |-> "returned", value |-> TRUE])
      [] t = "notFound" ->
             IF o = <<>> THEN Call([op |-> "getProductById", id |-> knownProductIds.invalid])
             ELSE End(Env(o, 1).status = 404)
      [] t = "categories" ->
             IF o = <<>> THEN Call([op |-> "getCategories"])
             ELSE End(/\ Len(Data(o, 1)) > 0
                      /\ \A i \in 1..Len(Data(o, 1)) :
                             LET category == Data(o, 1)[i] IN
                             IF category.tag = "string" THEN Len(category.value) > 0
                             ELSE /\ {"slug", "name", "url"} \subseteq DOMAIN category
                                  /\ Truthy(category.slug)
                                  /\ Truthy(category.name)
                                  /\ Truthy(category.url))
      [] t = "largeLimit" ->
             IF o = <<>> THEN Call(ListCall(Some(paginationData.largeLimit), Some(0)))
             ELSE End(/\ assertValidProductsResponse(Data(o, 1))
                      /\ Data(o, 1).limit = paginationData.largeLimit
                      /\ Len(Data(o, 1).products) > 0)
      [] t = "secondPage" ->
             IF o = <<>> THEN Call(ListCall(Some(10), Some(0)))
             ELSE IF Len(o) = 1 THEN Call(ListCall(Some(10), Some(10)))
             ELSE End(/\ assertValidProductsResponse(Data(o, 1))
                      /\ assertValidProductsResponse(Data(o, 2))
                      /\ IdsOf(Data(o, 1).products) \cap IdsOf(Data(o, 2).products) = {})
      [] t = "totalCount" ->
             IF o = <<>> THEN Call(ListCall(Some(10), Some(0)))
             ELSE IF Len(o) = 1 THEN Call(ListCall(Some(20), Some(5)))
             ELSE End(/\ Data(o, 1).total = Data(o, 2).total
                      /\ Data(o, 1).total > 0)
      [] t = "imageUrls" ->
             IF o = <<>> THEN Call(ListCall(Some(5), Some(0)))
             ELSE End(\A i \in 1..Len(Data(o, 1).products) :
                          LET product == Data(o, 1).products[i] IN
                          /\ IsURL(product.thumbnail)
                          /\ \A j \in 1..Len(product.images) : IsURL(product.images[j]))

\* The schemas a step of a test hands to ajv.compile.
Compiles(t, o) ==
    IF t = "validId" /\ o # <<>> /\ Get(Data(o, 1), "id") = Some(knownProductIds.valid)
    THEN {singleProductSchema}
    ELSE {}

CrudTests ==
    <<"create", "put", "patch", "delete", "createMinimal", "patchMulti",
      "createComplete", "priceZero", "putCategory", "postHeaders">>

\* { ...sampleProduct, title: generateRandomProductTitle(),
\*   price: generateRandomPrice() }
newProduct(draw) ==
    [title |-> generateRandomProductTitle(draw.randomA, draw.randomN, draw.now),
     price |-> generateRandomPrice(draw.random, 10, 1000)] @@ sampleProduct

putUpdates ==
    [title |-> <<"Updated Product via PUT">>,
     price |-> Dec(299, 99),
     description |-> <<"Completely updated product description">>,
     brand |-> <<"Updated Brand">>,
     category |-> laptops]

patchUpdates == [price |-> Dec(499, 99)]

minimalProduct == [title |-> <<"Minimal Product Test">>, price |-> Dec(49, 99)]

multiUpdates ==
    [title |-> <<"Multi-field Update Test">>, price |-> Dec(799, 99), stock |-> 50,
     rating |-> Dec(4, 90)]

completeProduct ==
    [title |-> <<"Complete Product Test">>,
     description |-> <<"A fully detailed product for comprehensive testing">>,
     price |-> Dec(999, 99),
     discountPercentage |-> Dec(15, 50),
     rating |-> Dec(4, 70),
     stock |-> 75,
     brand |-> <<"Test Brand Premium">>,
     category |-> laptops]

categoryUpdates ==
    [title |-> <<"Category Changed Product">>, category |-> fragrances,
     price |-> Dec(149, 99)]

\* Mutant: every test case of the CRUD file deletes the product and then
\* expects it to be gone.
CrudBodyReadingBack(t, o, draw) ==
    IF o = <<>> THEN Call([op |-> "deleteProduct", id |-> 1])
    ELSE IF Len(o) = 1 THEN Call([op |-> "getProductById", id |-> 1])
    ELSE End(Env(o, 2).status = 404)

\* The test cases of 'Products API - CRUD Operations'.
CrudBody(t, o, draw) ==
    CASE t = "create" ->
             IF o = <<>> THEN Call([op |-> "addProduct", product |-> newProduct(draw)])
             ELSE End(/\ Env(o, 1).ok
                      /\ Env(o, 1).status = 201
                      /\ Get(Data(o, 1), "id") # None
                      /\ Data(o, 1).id > 0
                      /\ \A f \in {"title", "price", "description", "brand", "category"} :
                             Get(Data(o, 1), f) = Some(newProduct(draw)[f]))
      [] t = "put" ->
             IF o = <<>>
             THEN Call([op |-> "updateProduct", id |-> 1, updates |-> putUpdates])
             ELSE End(/\ Env(o, 1).ok
                      /\ Env(o, 1).status = 200
                      /\ Get(Data(o, 1), "id") = Some(1)
                      /\ assertProductsMatch(Data(o, 1), putUpdates))
      [] t = "patch" ->
             IF o = <<>>
             THEN Call([op |-> "patchProduct", id |-> 1, updates |-> patchUpdates])
             ELSE End(/\ Env(o, 1).ok
                      /\ Env(o, 1).status = 200
                      /\ Get(Data(o, 1), "id") = Some(1)
                      /\ Get(Data(o, 1), "price") = Some(patchUpdates.price)
                      /\ Get(Data(o, 1), "title") # None
                      /\ Get(Data(o, 1), "description") # None)
      [] t = "delete" ->
             IF o = <<>> THEN Call([op |-> "deleteProduct", id |-> 1])
             ELSE End(/\ Env(o, 1).ok
                      /\ Env(o, 1).status = 200
                      /\ Get(Data(o, 1), "id") = Some(1)
                      /\ Get(Data(o, 1), "isDeleted") = Some(TRUE)
                      /\ Get(Data(o, 1), "deletedOn") # None
                      /\ IsDate(Data(o, 1).deletedOn))
      [] t = "createMinimal" ->
             IF o = <<>> THEN Call([op |-> "addProduct", product |-> minimalProduct])
             ELSE End(/\ Env(o, 1).ok
                      /\ Get(Data(o, 1), "id") # None
                      /\ Get(Data(o, 1), "title") = Some(minimalProduct.title)
                      /\ Get(Data(o, 1), "price") = Some(minimalProduct.price))
      [] t = "patchMulti" ->
             IF o = <<>>
             THEN Call([op |-> "patchProduct", id |-> 1, updates |-> multiUpdates])
             ELSE End(/\ Env(o, 1).ok
                      /\ assertProductsMatch(Data(o, 1), multiUpdates))
      [] t = "createComplete" ->
             IF o = <<>> THEN Call([op |-> "addProduct", product |-> completeProduct])
             ELSE End(/\ Env(o, 1).ok
                      /\ \A f \in {"title", "description", "price", "brand", "category"} :
                             Get(Data(o, 1), f) = Some(completeProduct[f]))
      [] t = "priceZero" ->
             IF o = <<>>
             THEN Call([op |-> "patchProduct", id |-> 1, updates |-> [price |-> 0]])
             ELSE End(/\ Env(o, 1).ok
                      /\ Get(Data(o, 1), "price") # None)
      [] t = "putCategory" ->
             IF o = <<>>
             THEN Call([op |-> "updateProduct", id |-> 1, updates |-> categoryUpdates])
             ELSE End(/\ Env(o, 1).ok
                      /\ Get(Data(o, 1), "category") = Some(categoryUpdates.category)
                      /\ Get(Data(o, 1), "title") = Some(categoryUpdates.title))
      [] t = "postHeaders" ->
             IF o = <<>> THEN Call([op |-> "addProduct", product |-> sampleProduct])
             ELSE End(/\ Env(o, 1).ok
                      /\ "content-type" \in DOMAIN Env(o, 1).headers
                      /\ includes(Env(o, 1).headers["content-type"],
                                  <<"application/json">>))

SearchTests ==
    <<"validQuery", "noResults", "partial", "multiWord", "inTitles", "inDescriptions",
      "inBrands", "emptyQuery", "specialChars", "searchPerformance", "searchStructure",
      "longQuery">>

specialChars == <<"@", "#", "$", "%", "&", "*">>

\* The expectations of the search test cases on the data their call
\* returned.
SearchExpectations(t, data) ==
    CASE t = "validQuery" ->
             /\ assertValidProductsResponse(data)
             /\ Len(data.products) > 0
             /\ assertProductsMatchSearch(data.products, searchQueries.valid) = "returned"
      [] t = "noResults" ->
             /\ "products" \in DOMAIN data
             /\ Len(data.products) = 0
             /\ Get(data, "total") = Some(0)
      [] t = "partial" ->
             /\ assertValidProductsResponse(data)
             /\ Len(data.products) > 0
             /\ \A i \in 1..Len(data.products) :
                    includes(combinedText(data.products[i]),
                             toLowerCase(searchQueries.partial))
      [] t = "multiWord" ->
             /\ "products" \in DOMAIN data
             /\ Len(data.products) > 0 =>
                    /\ assertValidProductsResponse(data)
                    /\ \A i \in 1..Len(data.products) :
                           \E w \in 1..Len(split(toLowerCase(searchQueries.multiWord))) :
                               includes(combinedText(data.products[i]),
                                        split(toLowerCase(searchQueries.multiWord))[w])

\* The test cases of 'Products API - Search Functionality'.
SearchBody(t, o) ==
    CASE t \in {"validQuery", "noResults", "partial", "multiWord"} ->
             IF o = <<>>
             THEN Call(SearchCall(CASE t = "validQuery" -> searchQueries.valid
                                    [] t = "noResults" -> searchQueries.noResults
                                    [] t = "partial" -> searchQueries.partial
                                    [] t = "multiWord" -> searchQueries.multiWord))
             ELSE End(SearchExpectations(t, Data(o, 1)))
      [] t = "inTitles" ->
             IF o = <<>> THEN Call(SearchCall(<<"i", "Phone">>))
             ELSE End(Len(Data(o, 1).products) > 0 =>
                          \E i \in 1..Len(Data(o, 1).products) :
                              includes(toLowerCase(Data(o, 1).products[i].title),
                                       toLowerCase(<<"i", "Phone">>)))
      [] t = "inDescriptions" ->
             IF o = <<>> THEN Call(SearchCall(<<"smart", "phone">>))
             ELSE End(Len(Data(o, 1).products) > 0 =>
                          \E i \in 1..Len(Data(o, 1).products) :
                              includes(toLowerCase(Data(o, 1).products[i].description),
                                       toLowerCase(<<"smart", "phone">>)))
      [] t = "inBrands" ->
             IF o = <<>> THEN Call(SearchCall(<<"Apple">>))
             ELSE End(Len(Data(o, 1).products) > 0 =>
                          \E i \in 1..Len(Data(o, 1).products) :
                              /\ "brand" \in DOMAIN Data(o, 1).products[i]
                              /\ includes(toLowerCase(Data(o, 1).products[i].brand),
                                          toLowerCase(<<"Apple">>)))
      [] t = "emptyQuery" ->
             IF o = <<>> THEN Call(SearchCall(<<>>))
             ELSE End(Env(o, 1).ok /\ "products" \in DOMAIN Data(o, 1))
      [] t = "specialChars" ->
             IF o # <<>> /\ ~(Env(o, Len(o)).ok /\ "products" \in DOMAIN Data(o, Len(o)))
             THEN End(FALSE)
             ELSE IF Len(o) < Len(specialChars)
             THEN Call(SearchCall(<<specialChars[Len(o) + 1]>>))
             ELSE End(TRUE)
      [] t = "searchPerformance" ->
             IF o = <<>> THEN Call(SearchCall(<<"laptop">>))
             ELSE End(WithinTwoSeconds(o[1].ms))
      [] t = "searchStructure" ->
             IF o = <<>> THEN Call(SearchCall(<<"perfume">>))
             ELSE End(\A i \in 1..Len(Data(o, 1).products) :
                          assertValidProduct(Data(o, 1).products[i]))
      [] t = "longQuery" ->
             IF o = <<>> THEN Call(SearchCall(LongQuery))
             ELSE End(Env(o, 1).ok /\ "products" \in DOMAIN Data(o, 1))

CategoryTests ==
    <<"allCategories", "smartphonesCategory", "laptopsCategory", "fragrancesCategory",
      "consistentStructure", "nonExistent", "differentProducts", "sequentially",
      "namesMatch", "withSpaces", "paginated", "categoryResponseTime", "atLeastOne",
      "caseSensitivity", "totalMatches">>

CategoryPath(name) == <<"/", "products", "/", "category", "/">> \o name

\* The expectations repeated for a named category: a valid listing that is
\* not empty, every product in the category.
InCategoryExpectations(data, category) ==
    /\ assertValidProductsResponse(data)
    /\ Len(data.products) > 0
    /\ assertProductsInCategory(data.products, category)

\* The loop of 'should validate category names match exactly' over the
\* products of the listing, which the first product that raises ends: the
\* category of each is to be the name (toBe(undefined) holds of a product
\* without category) and not to be the name in upper case;
\* categoryName.toUpperCase() raises a TypeError on an undefined name.
RECURSIVE CategoryNamesLoop(_, _)
CategoryNamesLoop(products, categoryName) ==
    IF products = <<>> THEN "returned"
    ELSE IF Get(Head(products), "category") # categoryName THEN "assertion"
    ELSE IF categoryName = None THEN "typeError"
    ELSE IF Get(Head(products), "category") = Some(toUpperCase(categoryName[1]))
    THEN "assertion"
    ELSE CategoryNamesLoop(Tail(products), categoryName)

\* The loop ends without raising.
CategoryNamesBody(products, categoryName) ==
    CategoryNamesLoop(products, categoryName) = "returned"

\* categories.data.slice(0, 5).map(cat => typeof cat === 'string' ? cat :
\* (cat.slug || cat.name)): each entry a name, or undefined.
categoriesToTest(data) == [i \in 1..Min(5, Len(data)) |-> CanonicalName(data[i])]

\* The argument a name is as a category: the string, or undefined.
Argument(name) == IF name = None THEN UndefinedCategory ELSE StringCategory(name[1])

\* expect(category).toHaveProperty(name)
toHaveProperty(category, name) == Prop(category, name) # None

\* names.some(name => name.includes(sub)): the names are visited in order
\* up to the first that includes sub; includes read off an undefined name
\* raises.
SomeIncludes(names, sub) ==
    \E i \in 1..Len(names) :
        /\ \A j \in 1..i : names[j] # None
        /\ includes(names[i][1], sub)

\* The forEach of 'should fetch all available categories' on one category.
CategoryExpectations(category) ==
    IF category.tag = "string"
    THEN /\ Len(category.value) > 0
         /\ trim(category.value) = category.value
    ELSE IF category.tag = "object"
    THEN /\ toHaveProperty(category, "slug")
         /\ toHaveProperty(category, "name")
    ELSE TRUE

\* The test cases of 'Products API - Category Filtering'.
CategoryBody(t, o) ==
    CASE t = "allCategories" ->
             IF o = <<>> THEN Call([op |-> "getCategories"])
             ELSE End(/\ Len(Data(o, 1)) > 0
                      /\ \A i \in 1..Len(Data(o, 1)) : CategoryExpectations(Data(o, 1)[i])
                      /\ SomeIncludes([i \in 1..Len(Data(o, 1)) |->
                                           CanonicalName(Data(o, 1)[i])],
                                      <<"smartphone">>))
      [] t = "smartphonesCategory" ->
             IF o = <<>> THEN Call(CategoryCall(StringCategory(smartphones)))
             ELSE End(InCategoryExpectations(Data(o, 1), smartphones))
      [] t = "laptopsCategory" ->
             IF o = <<>> THEN Call(CategoryCall(StringCategory(laptops)))
             ELSE End(InCategoryExpectations(Data(o, 1), laptops))
      [] t = "fragrancesCategory" ->
             IF o = <<>> THEN Call(CategoryCall(StringCategory(fragrances)))
             ELSE End(InCategoryExpectations(Data(o, 1), fragrances))
      [] t = "consistentStructure" ->
             IF o = <<>> THEN Call(CategoryCall(StringCategory(<<"beauty">>)))
             ELSE End(\A i \in 1..Len(Data(o, 1).products) :
                          /\ assertValidProduct(Data(o, 1).products[i])
                          /\ Data(o, 1).products[i].category = <<"beauty">>)
      [] t = "nonExistent" ->
             IF o = <<>> THEN RawGet(CategoryPath(<<"nonexistentcategory123">>))
             ELSE IF Yielded(o, 1).status = 404 THEN End(TRUE)
             ELSE IF Len(o) = 1 THEN ReadJson(1)
             ELSE End(/\ "products" \in DOMAIN Yielded(o, 2)
                      /\ Len(Yielded(o, 2).products) = 0)
      [] t = "differentProducts" ->
             IF o = <<>> THEN Call(CategoryCall(StringCategory(smartphones)))
             ELSE IF Len(o) = 1 THEN Call(CategoryCall(StringCategory(laptops)))
             ELSE End(IdsOf(Data(o, 1).products) \cap IdsOf(Data(o, 2).products) = {})
      [] t = "sequentially" ->
             IF o # <<>> /\ ~InCategoryExpectations(Data(o, Len(o)), testCategories[Len(o)])
             THEN End(FALSE)
             ELSE IF Len(o) < 3
             THEN Call(CategoryCall(StringCategory(testCategories[Len(o) + 1])))
             ELSE End(TRUE)
      [] t = "namesMatch" ->
             IF o = <<>> THEN Call([op |-> "getCategories"])
             ELSE IF Len(o) = 1
             THEN IF Data(o, 1) = <<>> THEN End(FALSE)
                  ELSE Call(CategoryCall(Data(o, 1)[1]))
             ELSE End(/\ "products" \in DOMAIN Data(o, 2)
                      /\ CategoryNamesBody(Data(o, 2).products,
                                           CanonicalName(Data(o, 1)[1])))
      [] t = "withSpaces" ->
             IF o = <<>> THEN Call([op |-> "getCategories"])
             ELSE IF Len(o) = 1
             THEN LET spaced == SelectSeq(Data(o, 1),
                                          LAMBDA cat : /\ CanonicalName(cat) # None
                                                       /\ includes(CanonicalName(cat)[1],
                                                                   <<" ">>))
                  IN IF spaced = <<>> THEN End(TRUE)
                     ELSE Call(CategoryCall(Argument(CanonicalName(spaced[1]))))
             ELSE End("products" \in DOMAIN Data(o, 2))
      [] t = "paginated" ->
             IF o = <<>> THEN Call(CategoryCall(StringCategory(<<"groceries">>)))
             ELSE End(/\ {"total", "skip", "limit"} \subseteq DOMAIN Data(o, 1)
                      /\ Data(o, 1).total >= Len(Data(o, 1).products))
      [] t = "categoryResponseTime" ->
             IF o = <<>> THEN Call(CategoryCall(StringCategory(smartphones)))
             ELSE End(WithinTwoSeconds(o[1].ms))
      [] t = "atLeastOne" ->
             IF o = <<>> THEN Call([op |-> "getCategories"])
             ELSE IF Len(o) > 1 /\ "products" \notin DOMAIN Data(o, Len(o)) THEN End(FALSE)
             ELSE IF Len(o) - 1 < Len(categoriesToTest(Data(o, 1)))
             THEN Call(CategoryCall(Argument(categoriesToTest(Data(o, 1))[Len(o)])))
             ELSE End(TRUE)
      [] t = "caseSensitivity" ->
             IF o = <<>> THEN RawGet(CategoryPath(smartphones))
             ELSE IF Len(o) = 1 THEN RawGet(CategoryPath(toUpperCase(smartphones)))
             ELSE IF Len(o) = 2 THEN ReadJson(1)
             ELSE IF Len(o) = 3 THEN ReadJson(2)
             ELSE End(/\ "products" \in DOMAIN Yielded(o, 3)
                      /\ "products" \in DOMAIN Yielded(o, 4))
      [] t = "totalMatches" ->
             IF o = <<>> THEN Call(CategoryCall(StringCategory(laptops)))
             ELSE End(IF Len(Data(o, 1).products) < 30
                      THEN Data(o, 1).total >= Len(Data(o, 1).products)
                      ELSE Data(o, 1).total > 0)

---------------------------------------------------------------------------
(* The test run: the runner's worker processes execute the selected test   *)
(* cases of the loaded files under the configuration of                    *)
(* playwright.config.ts.                                                   *)

\* The values of the environment variable CI: unset, empty, or set.
CIValues == {None, Some(<<>>), Some(<<"true">>)}

\* retries: process.env.CI ? 2 : 1
retries(CI) == IF Truthy(CI) THEN 2 ELSE 1

\* workers: process.env.CI ? 2 : undefined
workers(CI) == IF Truthy(CI) THEN Some(2) ELSE None

\* The configurations of a run: with workers undefined the runner chooses
\* the number of worker processes itself (from the machine's cores).
Configs ==
    UNION {{[retries |-> retries(CI), workers |-> n, grep |-> None] :
               n \in {m \in 1..MaxWorkers : workers(CI) \in {None, Some(m)}}} :
           CI \in CIValues}

Workers == 1..MaxWorkers

\* testMatch '**/*.spec.ts': the spec files of the project 'API Tests'.
Files == {"products", "products-crud", "products-search", "products-category"}

\* The test cases of a file, in the order the file declares them.
FileTests(f) ==
    CASE f = "products" -> BasicTests
      [] f = "products-crud" -> CrudTests
      [] f = "products-search" -> SearchTests
      [] f = "products-category" -> CategoryTests

Range(seq) == {seq[i] : i \in 1..Len(seq)}

Tests == UNION {Range(FileTests(f)) : f \in Files}

FileOf(t) ==
    CASE t \in Range(BasicTests) -> "products"
      [] t \in Range(CrudTests) -> "products-crud"
      [] t \in Range(SearchTests) -> "products-search"
      [] t \in Range(CategoryTests) -> "products-category"

\* test.describe.only('Products API - Basic Operations', ...)
Only(t) == t \in Range(BasicTests)

\* The runner keeps the focused tests when a loaded file has any; a grep
\* of the command line keeps the tests it names.
Selected(files, grep) ==
    LET inFiles == UNION {Range(FileTests(f)) : f \in files}
        inRun == {t \in inFiles : grep \in {None, Some(t)}}
    IN IF \E t \in inFiles : Only(t)
       THEN {t \in inRun : Only(t)}
       ELSE inRun

\* What a test draws: Math.random() three times and the clock, which is
\* counted in milliseconds from 0.
Randoms == {0, RandomScale - 1}
NoDraw == [randomA |-> 0, randomN |-> 0, random |-> 0, now |-> 0]
Draws(t) ==
    IF t = "create"
    THEN [randomA : Randoms, randomN : {0}, random : Randoms, now : {0}]
    ELSE {NoDraw}

\* The body of a test case.
Body(t, o, draw) ==
    CASE t \in Range(BasicTests) -> BasicBody(t, o)
      [] t \in Range(CrudTests) -> CrudBody(t, o, draw)
      [] t \in Range(SearchTests) -> SearchBody(t, o)
      [] t \in Range(CategoryTests) -> CategoryBody(t, o)

\* What a test does next: an exception of its last await ends it (nothing
\* in a test catches), and so does a wrapper call that raises before its
\* request; otherwise its body goes on.
Step(t, o, draw) ==
    IF o # <<>> /\ o[Len(o)].kind = "thrown" THEN End(FALSE)
    ELSE LET step == Body(t, o, draw) IN
         IF step.do = "call" /\ CallThrows(step.call) THEN End(FALSE) ELSE step

\* The request a step of a body awaits: a wrapper call's, or the one handed
\* to request.get directly.
StepRequest(step) ==
    IF step.do = "call" THEN BuildRequest(step.call) ELSE step.req

\* The service's answer to a request of the suite.
ServiceAnswer(req, d) == CHOOSE r \in ServiceResponses(req, d) : TRUE

\* What `await request.get(...)` of a test yields: the response.
GetOutcome(r) == [kind |-> "response", value |-> r]

\* What `await response.json()` of a test yields: the parsed body, or the
\* exception of a body that is not JSON.
JsonOutcome(r) ==
    IF r.body.json THEN [kind |-> "json", value |-> r.body.val]
    ELSE [kind |-> "thrown", error |-> "json"]

\* What a wrapper call yields once the body of its response r is read, ms
\* milliseconds after the call began.
CallOutcome(r, ms) == [ms |-> ms] @@ Settle(r, TRUE)

\* Response times in milliseconds: the longest within the two seconds some
\* tests allow, and the shortest that is not.
Fast == TwoSeconds - 1
Slow == TwoSeconds

\* A worker that runs no test: `last` is how the attempt it ran last ended,
\* until it takes the next one.
Idle == [file |-> "none", test |-> "none", attempt |-> 0, stage |-> "idle",
         outs |-> <<>>, draw |-> NoDraw, response |-> None, last |-> None]

\* The awaits of an attempt, by their position, that were wrapper calls
\* taking two seconds or more.
SlowCalls(o) == {i \in DOMAIN o : "ms" \in DOMAIN o[i] /\ ~WithinTwoSeconds(o[i].ms)}

\* How an attempt of test t ended: with every expectation met or not, after
\* the awaits o, the last await rejected (or timed out) or not.
Result(t, passed, o, rejected) ==
    [test |-> t, passed |-> passed, slow |-> SlowCalls(o), rejected |-> rejected]

NoInstance == [test |-> "none", attempt |-> 0]

\* The files of a run: the whole project, one file named on the command
\* line, or two.
Runs == {Files} \cup {{f} : f \in Files} \cup {{"products-crud", "products-search"}}

SuiteInit ==
    /\ db \in Datasets
    /\ WrapperInit
    /\ db0 = db
    /\ persists \in BOOLEAN
    /\ config \in Configs
    /\ loaded \in Runs
    /\ worker = [w \in Workers |-> Idle]
    /\ productsAPI = [w \in Workers |-> NoInstance]
    /\ ajv = [w \in Workers |-> {}]
    /\ verdict = [t \in Tests |-> "pending"]
    /\ faults = 0
    /\ applied = <<>>

\* The selected test cases of a file that are not done, and the first of
\* them in the file's order.
Pending(f) ==
    LET selected == Selected(loaded, config.grep) IN
    SelectSeq(FileTests(f), LAMBDA t : verdict[t] = "pending" /\ t \in selected)

\* A worker process runs the test cases of one file at a time, in their
\* order; a file is run by one worker.
MayRun(w, t) ==
    /\ w <= config.workers
    /\ verdict[t] = "pending"
    /\ FileOf(t) \in loaded
    /\ Pending(FileOf(t)) # <<>>
    /\ t = Head(Pending(FileOf(t)))
    /\ \A v \in Workers \ {w} : worker[v].file # FileOf(t)
    /\ IF worker[w].file \in Files
       THEN worker[w].file = FileOf(t) \/ Pending(worker[w].file) = <<>>
       ELSE TRUE

\* Mutant: the instance is built when the variable holds none and kept
\* from then on (productsAPI ??= new ProductsAPI(request)).
beforeEachKeeping(current, t, attempt) ==
    IF current = NoInstance THEN [test |-> t, attempt |-> attempt] ELSE current

\* The beforeEach hook of a file, productsAPI = new ProductsAPI(request):
\* whatever the variable held, it holds an instance on the request fixture
\* of this attempt of test t.
beforeEach(current, t, attempt) == [test |-> t, attempt |-> attempt]

\* A worker takes the next test case of its file, or of a file no worker
\* has, and runs the beforeEach hook.  A failed test case is run again as
\* its next attempt.
Takes(w, t) ==
    /\ \/ worker[w].stage = "idle" /\ MayRun(w, t)
       \/ worker[w].stage = "retry" /\ worker[w].test = t
    /\ worker' = [worker EXCEPT ![w] =
                     [file |-> FileOf(t), test |-> t,
                      attempt |-> IF worker[w].stage = "retry" THEN worker[w].attempt ELSE 1,
                      stage |-> "ready", outs |-> <<>>, draw |-> NoDraw,
                      response |-> None, last |-> None]]
    /\ productsAPI' = [productsAPI EXCEPT ![w] =
                          beforeEach(productsAPI[w], t, worker'[w].attempt)]
    /\ UNCHANGED <<db, db0, persists, config, loaded, verdict, faults, ajv, wrapperVars,
                   helperVars>>

\* The worker after an attempt of its test case ended: a test case that
\* passed leaves the process as it is; after a failure the runner starts a
\* new process, which runs the test case again while retries remain.
Ended(w, result) ==
    /\ verdict' = [verdict EXCEPT ![worker[w].test] =
                      IF result.passed THEN "passed"
                      ELSE IF worker[w].attempt <= config.retries THEN "pending"
                      ELSE "failed"]
    /\ worker' = [worker EXCEPT ![w] =
                     IF ~result.passed /\ worker[w].attempt <= config.retries
                     THEN [Idle EXCEPT !.file = worker[w].file, !.test = worker[w].test,
                                       !.attempt = worker[w].attempt + 1, !.stage = "retry",
                                       !.last = Some(result)]
                     ELSE [Idle EXCEPT !.file = worker[w].file, !.last = Some(result)]]
    /\ productsAPI' = IF result.passed THEN productsAPI
                      ELSE [productsAPI EXCEPT ![w] = NoInstance]

\* A wrapper call of a test goes through the instance the variable
\* productsAPI holds.  An instance wraps the request fixture of the attempt
\* whose beforeEach built it, and the runner disposes of that fixture when
\* the attempt ends: a call through the instance of an earlier attempt
\* rejects, a call through no instance raises, and the test ends there.
Through(instance, own, step) ==
    IF step.do = "call" /\ instance # own THEN End(FALSE) ELSE step

\* The instance built on the request fixture of the attempt worker w runs.
Own(w) == [test |-> worker[w].test, attempt |-> worker[w].attempt]

\* The test runs on from a point where it holds what its awaits yielded (o),
\* up to its next await or to its end.  Awaiting a request it holds no
\* response; awaiting response.json() it holds the response being read.
RunsOn(w, o, draw, cache) ==
    LET t == worker[w].test
        step == Through(productsAPI[w], Own(w), Step(t, o, draw))
        compiled == cache \cup Compiles(t, o)
    IN IF step.do = "end"
       THEN /\ Ended(w, Result(t, step.passed, o, FALSE))
            /\ ajv' = [ajv EXCEPT ![w] = IF step.passed THEN compiled ELSE {}]
       ELSE /\ worker' = [worker EXCEPT
                             ![w].stage = IF step.do = "json" THEN "reading" ELSE "awaiting",
                             ![w].outs = o,
                             ![w].draw = draw,
                             ![w].response = IF step.do = "json"
                                             THEN Some(Yielded(o, step.of)) ELSE None]
            /\ ajv' = [ajv EXCEPT ![w] = compiled]
            /\ UNCHANGED <<verdict, productsAPI>>

\* The runner calls the test function, which draws what it draws and runs
\* to its first await.
TestStarts(w) ==
    /\ worker[w].stage = "ready"
    /\ \E draw \in Draws(worker[w].test) : RunsOn(w, <<>>, draw, ajv[w])
    /\ UNCHANGED <<db, db0, persists, config, loaded, faults, wrapperVars, helperVars>>

\* The step a suspended test is at, and the request it awaits.
Current(w) == Step(worker[w].test, worker[w].outs, worker[w].draw)
Awaited(w) == StepRequest(Current(w))

\* The service handles the request a test awaits and the response is
\* delivered.  In a wrapper call the method resumes, calls response.json()
\* and awaits that: the test stays suspended.  After a request.get of its
\* own the test resumes with the response and runs on.
Responds(w) ==
    /\ worker[w].stage = "awaiting"
    /\ LET r == ServiceAnswer(Awaited(w), db) IN
       IF Current(w).do = "call"
       THEN /\ worker' = [worker EXCEPT ![w].stage = "reading",
                                        ![w].response = Some(r)]
            /\ UNCHANGED <<verdict, productsAPI, ajv>>
       ELSE RunsOn(w, Append(worker[w].outs, GetOutcome(r)), worker[w].draw, ajv[w])
    /\ db' = ServiceAfter(Awaited(w), db, persists)
    /\ UNCHANGED <<db0, persists, config, loaded, faults, wrapperVars, helperVars>>

\* response.json() resolves: a wrapper call returns its envelope, ms
\* milliseconds after the test called it, or the test has the body it
\* asked for; the test runs on.
BodyRead(w, ms) ==
    /\ worker[w].stage = "reading"
    /\ LET r == worker[w].response[1]
           out == IF Current(w).do = "call" THEN CallOutcome(r, ms) ELSE JsonOutcome(r)
       IN RunsOn(w, Append(worker[w].outs, out), worker[w].draw, ajv[w])
    /\ UNCHANGED <<db, db0, persists, config, loaded, wrapperVars, helperVars>>

Answered(w) ==
    /\ BodyRead(w, Fast)
    /\ UNCHANGED faults

\* The same, the wrapper call having taken two seconds or more.  (A test
\* measures the time of wrapper calls only.)
AnsweredSlowly(w) ==
    /\ faults < MaxFaults
    /\ worker[w].stage = "reading"
    /\ Current(w).do = "call"
    /\ BodyRead(w, Slow)
    /\ faults' = faults + 1

\* The await a test is suspended at fails and the test ends there.  The
\* request may have reached the service before.
Fails(w, reached) ==
    /\ faults < MaxFaults
    /\ faults' = faults + 1
    /\ Ended(w, Result(worker[w].test, FALSE, worker[w].outs, TRUE))
    /\ ajv' = [ajv EXCEPT ![w] = {}]
    /\ db' = IF reached THEN ServiceAfter(Awaited(w), db, persists) ELSE db
    /\ UNCHANGED <<db0, persists, config, loaded, wrapperVars, helperVars>>

\* The awaited request rejects (a transport failure, which nothing in a
\* test catches), response.json() rejects (the body could not be read), or
\* the test is still suspended when the configured timeout has passed and
\* the runner fails it.  While the body is read the service has handled the
\* request already.
AwaitFails(w) ==
    \/ worker[w].stage = "awaiting" /\ \E reached \in BOOLEAN : Fails(w, reached)
    \/ worker[w].stage = "reading" /\ Fails(w, FALSE)

\* The test cases a worker may take next.
Candidates(w) ==
    IF worker[w].stage = "retry" THEN {worker[w].test}
    ELSE IF worker[w].stage = "idle"
    THEN {Head(Pending(f)) : f \in {g \in loaded : Pending(g) # <<>>}}
    ELSE {}

TakesNext(w) == \E t \in Candidates(w) : Takes(w, t)

SuiteNext ==
    \/ \E w \in Workers : TakesNext(w)
    \/ \E w \in Workers : TestStarts(w)
    \/ \E w \in Workers : Responds(w)
    \/ \E w \in Workers : Answered(w)
    \/ \E w \in Workers : AnsweredSlowly(w)
    \/ \E w \in Workers : AwaitFails(w)

SuiteSpec == SuiteInit /\ [][SuiteNext]_vars

---------------------------------------------------------------------------
(* Properties of the test run                                              *)

\* Test case t run by itself against collection d, on an instance of its
\* own beforeEach and a service that stores nothing, no await failing; the
\* wrapper calls among its awaits at the positions in `slow` take two
\* seconds, the others less.
RECURSIVE RunAlone(_, _, _, _, _)
RunAlone(t, o, draw, d, slow) ==
    LET step == Step(t, o, draw) IN
    IF step.do = "end" THEN step.passed
    ELSE IF step.do = "json"
    THEN RunAlone(t, Append(o, JsonOutcome(Yielded(o, step.of))), draw, d, slow)
    ELSE RunAlone(t,
                  Append(o, IF step.do = "call"
                            THEN CallOutcome(ServiceAnswer(StepRequest(step), d),
                                             IF Len(o) + 1 \in slow THEN Slow ELSE Fast)
                            ELSE GetOutcome(ServiceAnswer(StepRequest(step), d))),
                  draw,
                  ServiceAfter(StepRequest(step), d, FALSE),
                  slow)

AloneVerdict(t, d, slow) ==
    IF \A draw \in Draws(t) : RunAlone(t, <<>>, draw, d, slow) THEN "passed" ELSE "failed"

\* No test case awaits more often than the one that searches for each of
\* the special characters in turn.
MaxAwaits == Len(specialChars)

\* The positions at which the calls of one attempt may be slow in a run.
SlowSets == {slow \in SUBSET (1..MaxAwaits) : Cardinality(slow) <= MaxFaults}

\* The same for every collection a run may begin with, every test case and
\* every choice of slow calls.
AloneVerdicts ==
    [d \in Datasets |->
        [t \in Tests |-> [slow \in SlowSets |-> AloneVerdict(t, d, slow)]]]

\* An attempt that ended as `result` says ended as the test case does when
\* run alone with the same response times; an attempt one of whose awaits
\* was rejected or timed out failed, as it does alone.
AsAlone(result) ==
    IF result.rejected THEN ~result.passed
    ELSE result.passed = (AloneVerdicts[db0][result.test][result.slow] = "passed")

\* C10: the verdict of every test case is independent of execution order
\* and interleaving, given that the remote service does not persist
\* mutations: whatever the files of the run, the order and the workers,
\* every attempt of a test case ends as the test case ends when it is run
\* alone and gets its responses as fast or as slowly; and in a run in which
\* no await failed and no response was slow, a test case that is done
\* passed or failed exactly as it does when run alone.
C10_VerdictIndependent ==
    ~persists =>
        /\ \A w \in Workers : worker[w].last # None => AsAlone(worker[w].last[1])
        /\ faults = 0 =>
               \A t \in Tests :
                   verdict[t] \in {"passed", "failed"} =>
                       verdict[t] = AloneVerdicts[db0][t][{}]

\* Two workers interleave the CRUD and the search file; the search that
\* measures its response time has just failed on a slow response, as it
\* does alone, after tests of both files passed in the same processes.
C10_Witness ==
    /\ ~persists
    /\ loaded = {"products-crud", "products-search"}
    /\ db0.total = MaxTotal
    /\ verdict["create"] = "passed"
    /\ verdict["delete"] = "passed"
    /\ verdict["validQuery"] = "passed"
    /\ worker[1].last = Some([test |-> "searchPerformance", passed |-> FALSE,
                              slow |-> {1}, rejected |-> FALSE])
    /\ AloneVerdicts[db0]["searchPerformance"][{1}] = "failed"
    /\ AloneVerdicts[db0]["searchPerformance"][{}] = "passed"
    /\ worker[2].test = "createMinimal" /\ worker[2].stage = "reading"

\* A test case is suspended at an await.
Suspended(w) == worker[w].stage \in {"awaiting", "reading"}

\* What a step awaits: a wrapper call's name, "get" for request.get, "json"
\* for response.json().
Operation(step) == IF step.do = "call" THEN step.call.op ELSE step.do

\* The operations a running test case has awaited so far, the one it is
\* awaiting included.
RECURSIVE Awaits(_, _, _)
Awaits(t, o, draw) ==
    IF o = <<>> THEN <<>>
    ELSE Append(Awaits(t, SubSeq(o, 1, Len(o) - 1), draw),
                Operation(Step(t, SubSeq(o, 1, Len(o) - 1), draw)))

CallsMade(w) ==
    LET made == Awaits(worker[w].test, worker[w].outs, worker[w].draw)
    IN IF Suspended(w) THEN Append(made, Operation(Current(w))) ELSE made

IsMutation(op) == op \in {"addProduct", "updateProduct", "patchProduct", "deleteProduct"}
IsRead(op) == ~IsMutation(op)

\* C11: no test case relies on a read reflecting an earlier write: in no
\* test case is a read call (list, get, search, category) issued after a
\* create, update, patch or delete call, so no result of such a read is ever
\* asserted on; and a test case that mutates makes that one call only, its
\* expectations being over the response of its own mutation call.
C11_NoReadAfterWrite ==
    \A w \in Workers :
        Suspended(w) =>
          LET made == CallsMade(w) IN
          /\ \A i, j \in 1..Len(made) :
                 i < j /\ IsMutation(made[i]) => ~IsRead(made[j])
          /\ (\E i \in 1..Len(made) : IsMutation(made[i])) => Len(made) = 1

C11_Witness ==
    /\ verdict["delete"] = "passed"
    /\ verdict["put"] = "passed"
    /\ worker[1].test = "createMinimal"
    /\ worker[1].stage = "reading"
    /\ CallsMade(1) = <<"addProduct">>

\* The run is over: no worker is busy and no selected test case is left.
RunOver ==
    /\ \A w \in Workers : worker[w].stage = "idle"
    /\ \A t \in Selected(loaded, config.grep) : verdict[t] # "pending"

\* C21: running the suite executes the complete test suite: when the run is
\* over, every test case of every spec file of the run has been executed;
\* no test case is excluded by the declarations of another file.
C21_EveryTestExecuted ==
    RunOver => \A t \in Tests : FileOf(t) \in loaded => verdict[t] # "pending"

\* C25: no shared mutable state crosses test boundaries: the calls of a
\* running test case go through the instance its own beforeEach built, and
\* running a test case leaves nothing behind in a variable of the file or in
\* an object of a module: at the boundary between two test cases the
\* variable productsAPI holds no instance and the ajv instance is as it was
\* created.
C25_NoSharedMutableState ==
    \A w \in Workers :
        /\ worker[w].stage \in {"ready", "awaiting", "reading"} =>
               productsAPI[w] = [test |-> worker[w].test, attempt |-> worker[w].attempt]
        /\ worker[w].stage \in {"idle", "retry"} =>
               /\ productsAPI[w] = NoInstance
               /\ ajv[w] = {}

\* The part of C25 about the calls: a running test case holds the instance
\* of its own beforeEach.
OwnInstance ==
    \A w \in Workers :
        worker[w].stage \in {"ready", "awaiting", "reading"} =>
            productsAPI[w] = [test |-> worker[w].test, attempt |-> worker[w].attempt]

---------------------------------------------------------------------------
(* The assertion helpers, the schema validator and the utilities on their  *)
(* own: each is applied to arguments drawn from the data a response may    *)
(* carry, in one process, and what it did is recorded in `applied`.        *)

\* The values a field of a product may carry in a response.
FieldValues(f) ==
    CASE f = "id" -> {-1, 0, 1}
      [] f \in {"title", "description", "category"} -> {<<>>, <<"smartphones">>}
      [] f = "price" -> {-1, 0, Dec(9, 99)}
      [] f = "discountPercentage" -> {-1, 0, Dec(100, 0), Dec(100, 1)}
      [] f = "rating" -> {-1, 0, Dec(5, 0), Dec(5, 1)}
      [] f = "stock" -> {-1, 0, 5}
      [] f = "brand" -> {<<>>, <<"Brand">>}
      [] f = "thumbnail" -> {<<>>, <<"thumbnail.png">>, <<"http://", "cdn">>}
      [] f = "images" ->
             {<<>>, << <<"1.png">> >>,
              << <<"https://", "cdn", "/", "1.png">>, <<"2.png">> >>}

ProductFields == DOMAIN Product(1)

\* A stored product with one field changed or missing, and any brand.
OneFieldOff ==
    {Product(1)}
    \cup UNION {{With(Product(1), f, v) : v \in FieldValues(f)} : f \in ProductFields}
    \cup {Without(Product(1), f) : f \in ProductFields}

Products ==
    OneFieldOff
    \cup UNION {{With(p, "brand", b) : b \in FieldValues("brand")} : p \in OneFieldOff}
    \cup {Without(p, "brand") : p \in OneFieldOff}

\* The listings a response may carry: any page, total, skip and limit, and
\* bodies without products or without total.
Listings ==
    LET full == {[products |-> [i \in 1..n |-> Product(i)], total |-> tot,
                  skip |-> sk, limit |-> lim] :
                     n \in 0..2, tot \in {0, 1, 2}, sk \in {-1, 0}, lim \in {0, 1, 2}}
    IN full \cup {Without(l, "products") : l \in full} \cup {Without(l, "total") : l \in full}

\* Products as a category listing may carry them, and the identifiers asked.
CategoryProducts ==
    {With(Product(1), "category", c) :
        c \in {<<"beauty">>, <<"Beauty">>, <<"laptops">>}}
    \cup {Without(Product(1), "category")}

CategoryLists ==
    {<<>>} \cup {<<p>> : p \in CategoryProducts}
    \cup {<<p, q>> : p \in CategoryProducts, q \in CategoryProducts}

CategoryNames == {<<"beauty">>, <<"Beauty">>}

\* Products as a search may return them (the brand is optional in some),
\* and the terms searched for.
SearchProducts ==
    LET withBrand == {[title |-> ti, description |-> de, brand |-> br] :
                         ti \in {<<"i", "Phone">>, <<"Lamp">>},
                         de \in {<<"Smart", "phone">>, <<"Desk", " ", "lamp">>},
                         br \in {<<"Apple">>, <<"Phone", "Co">>}}
    IN withBrand \cup {Without(q, "brand") : q \in withBrand}

SearchLists ==
    {<<>>} \cup {<<p>> : p \in SearchProducts}
    \cup {<<p, q>> : p \in SearchProducts, q \in SearchProducts}

SearchTerms == {<<"phone">>, <<"PHONE">>, <<"Phone">>, <<"apple">>, <<"i", "phone">>, <<>>, <<"tablet">>}

\* The partial updates a mutation result is compared with, and the results:
\* the stored product as it was, or with an update applied.
Partials ==
    { [price |-> 0], [price |-> Dec(9, 99)], [price |-> Dec(499, 99)],
      [title |-> <<>>], [title |-> <<"Updated">>],
      [stock |-> 0], [rating |-> 0], [rating |-> Dec(4, 0)],
      [discountPercentage |-> Dec(15, 0)],
      [title |-> <<"Updated">>, price |-> 0],
      putUpdates, multiUpdates }

Actuals == {Product(1)} \cup {u @@ Product(1) : u \in Partials}

\* The bodies validated: the members id, title and price in the order of the
\* service's document, id and title each absent, a number or a string, the
\* price absent or a number; bodies in another order; one with a text that
\* has a quotation mark and a backslash in it and a list of images.
BodyOf(order, c) ==
    LET present == SelectSeq(order, LAMBDA f : c[f] # "absent") IN
    [i \in 1..Len(present) |->
        Member(present[i], IF c[present[i]] = "number" THEN Num(1) ELSE Str(<<"text">>))]

Bodies ==
    {BodyOf(<<"id", "title", "price">>, c) :
        c \in {b \in [{"id", "title", "price"} -> {"absent", "number", "string"}] :
                  b["price"] # "string"}}
    \cup {BodyOf(<<"price", "title", "id">>, c) :
             c \in {b \in [{"id", "title", "price"} -> {"absent", "number", "string"}] :
                       b["title"] = "string" /\ b["id"] # "absent" /\ b["price"] # "number"}}
    \cup { << Member("title", Str(<<"say ", "\"", "hi", "\"", " ", "\\">>)),
              Member("images", Arr(<< Str(<<"1.png">>), Str(<<"2.png">>) >>)),
              Member("id", Num(1)) >> }

\* The schema objects passed: the imported one, another object with the
\* same document, and an object with another document.
Schemas ==
    { singleProductSchema,
      [singleProductSchema EXCEPT !.object = "copy of product.schema.json"],
      [object |-> "id.schema.json",
       required |-> <<"id">>,
       properties |-> << [name |-> "id", type |-> "number"],
                         [name |-> "title", type |-> "string"] >>] }

\* No helper has been applied yet; the process's ajv instance has compiled
\* nothing.
HelperInit ==
    /\ db = [total |-> 0]
    /\ WrapperInit
    /\ NoRun
    /\ ajv = << {} >>
    /\ applied = <<>>

\* A helper is applied once to the drawn arguments.
CanApply == applied = <<>>

\* The application a call or a test body makes is recorded as it ends.
Apply(application) ==
    /\ applied' = << application >>
    /\ UNCHANGED <<db, wrapperVars, suiteVars, ajv>>

CallAssertValidProduct ==
    \E product \in Products :
        /\ CanApply
        /\ Apply([name |-> "assertValidProduct", case |-> "none",
                  product |-> product,
                  after |-> [product |-> product],
                  result |-> Verdict(assertValidProduct(product))])

CallAssertValidProductsResponse ==
    \E response \in Listings :
        /\ CanApply
        /\ Apply([name |-> "assertValidProductsResponse", case |-> "none",
                  response |-> response,
                  after |-> [response |-> response],
                  result |-> Verdict(assertValidProductsResponse(response))])

CallAssertProductsInCategory ==
    \E products \in CategoryLists, category \in CategoryNames :
        /\ CanApply
        /\ Apply([name |-> "assertProductsInCategory", case |-> "none",
                  products |-> products, category |-> category,
                  after |-> [products |-> products],
                  result |-> Verdict(assertProductsInCategory(products, category))])

CallAssertProductsMatchSearch ==
    \E products \in SearchLists, searchTerm \in SearchTerms :
        /\ CanApply
        /\ Apply([name |-> "assertProductsMatchSearch", case |-> "none",
                  products |-> products, searchTerm |-> searchTerm,
                  after |-> [products |-> products],
                  result |-> assertProductsMatchSearch(products, searchTerm)])

CallAssertProductsMatch ==
    \E actual \in Actuals, expected \in Partials :
        /\ CanApply
        /\ Apply([name |-> "assertProductsMatch", case |-> "none",
                  actual |-> actual, expected |-> expected,
                  after |-> [actual |-> actual, expected |-> expected],
                  result |-> Verdict(assertProductsMatch(actual, expected))])

\* assertPagination reads skip, limit and products.length of the listing.
CallAssertPagination ==
    \E response \in {l \in Listings : IsListing(l)},
       expectedSkip \in {0, 1}, expectedLimit \in {1, 2} :
        /\ CanApply
        /\ Apply([name |-> "assertPagination", case |-> "none",
                  response |-> response,
                  after |-> [response |-> response],
                  result |-> Verdict(assertPagination(response, expectedSkip,
                                                      expectedLimit))])

\* The calls of validateResponseSchema made one after the other.
MaxValidations == 2

\* `const validate = ajv.compile(schema)`, then the validation: the call is
\* recorded with the schema, if any, for which a validator was built, with
\* the module's ajv instance as the call found it, and with the body, the
\* schema and the instance as the call left them.
CallValidateResponseSchema ==
    \E response \in Bodies, schema \in Schemas :
        /\ Len(applied) < MaxValidations
        /\ \A i \in DOMAIN applied : applied[i].name = "validateResponseSchema"
        /\ LET compilation == compile(ajvOfModule(ajv[1]), schema) IN
           /\ applied' = Append(applied,
                                 [name |-> "validateResponseSchema", case |-> "none",
                                  response |-> response, schema |-> schema,
                                  ajv |-> ajv[1],
                                  compiled |-> IF compilation.built
                                               THEN Some(schema) ELSE None,
                                  after |-> [response |-> coerced(response, schema),
                                             schema |-> schema,
                                             ajv |-> compilation.cache],
                                  result |-> validateResponseSchema(response, schema)])
           /\ ajv' = << compilation.cache >>
        /\ UNCHANGED <<db, wrapperVars, suiteVars>>

\* The loop of 'should validate category names match exactly' runs over the
\* products of a listing.
CategoryNamesTestBody ==
    \E products \in CategoryLists,
       categoryName \in {None} \cup {Some(name) : name \in CategoryNames} :
        /\ CanApply
        /\ Apply([name |-> "forEach", case |-> "namesMatch",
                  products |-> products, categoryName |-> categoryName,
                  result |-> CategoryNamesLoop(products, categoryName)])

\* The clock readings of the model and the titles asked for.
MaxMillis == 1
MaxTitles == 2

\* Draws of Math.random(): for a title the least and the greatest, and the
\* two about the first fifth, where the first word changes.
TitleDraws == {0, RandomScale \div 5, RandomScale \div 5 + 1, RandomScale - 1}

\* For a price the least, the next, one whose price in hundredths falls on
\* a half (a sixteenth: 71.875), the middle, and the greatest, whose price
\* rounds up to the maximum.
PriceDraws == {0, 1, RandomScale \div 16, RandomScale \div 2, RandomScale - 1}

\* A test (of any worker) asks for a title; the clock does not run backwards.
CallGenerateRandomProductTitle ==
    \E w \in Workers, randomA \in TitleDraws, randomN \in Randoms,
       now \in 0..MaxMillis :
        /\ Len(applied) < MaxTitles
        /\ \A i \in DOMAIN applied :
               applied[i].name = "generateRandomProductTitle" /\ applied[i].now <= now
        /\ applied' = Append(applied,
                              [name |-> "generateRandomProductTitle", case |-> "none",
                               by |-> w, now |-> now,
                               result |-> generateRandomProductTitle(randomA, randomN, now)])
        /\ UNCHANGED <<db, wrapperVars, suiteVars, ajv>>

\* A test asks for a price between min and max.
CallGenerateRandomPrice ==
    \E random \in PriceDraws, range \in {<<10, 1000>>, <<0, 1>>} :
        /\ CanApply
        /\ Apply([name |-> "generateRandomPrice", case |-> "none",
                  random |-> random, min |-> range[1], max |-> range[2],
                  result |-> generateRandomPrice(random, range[1], range[2])])

\* The expectations of a search test case are evaluated on the data its
\* call returned.
SearchTestBody ==
    \E t \in {"validQuery", "noResults", "partial", "multiWord"}, data \in Listings :
        /\ CanApply
        /\ Apply([name |-> "searchTest", case |-> t, data |-> data,
                  result |-> Verdict(SearchExpectations(t, data))])

HelperNext ==
    \/ CallAssertValidProduct
    \/ CallAssertValidProductsResponse
    \/ CallAssertProductsInCategory
    \/ CallAssertProductsMatchSearch
    \/ CallAssertProductsMatch
    \/ CallValidateResponseSchema
    \/ SearchTestBody
    \/ CallGenerateRandomProductTitle
    \/ CallGenerateRandomPrice
    \/ CallAssertPagination
    \/ CategoryNamesTestBody

HelperSpec == HelperInit /\ [][HelperNext]_vars

---------------------------------------------------------------------------
(* Properties of the helpers, the validator and the utilities              *)

AppliedOf(name) == {a \in {applied[i] : i \in DOMAIN applied} : a.name = name}

\* The constraints of the data model on an entity (brand is optional).
SatisfiesEntityConstraints(product) ==
    /\ Get(product, "id") # None /\ product.id > 0
    /\ Get(product, "title") # None /\ product.title # <<>>
    /\ Get(product, "description") # None /\ product.description # <<>>
    /\ Get(product, "price") # None /\ product.price > 0
    /\ Get(product, "discountPercentage") # None
    /\ product.discountPercentage >= 0 /\ product.discountPercentage <= Dec(100, 0)
    /\ Get(product, "rating") # None /\ product.rating >= 0 /\ product.rating <= Dec(5, 0)
    /\ Get(product, "stock") # None /\ product.stock >= 0
    /\ Get(product, "category") # None /\ product.category # <<>>
    /\ Get(product, "thumbnail") # None /\ IsURL(product.thumbnail)
    /\ Get(product, "images") # None
    /\ \A i \in 1..Len(product.images) : IsURL(product.images[i])

\* C12: assertValidProduct(product) passes if and only if the product
\* satisfies every entity constraint of the data model: id > 0, non-empty
\* title and description, price > 0, 0 <= discountPercentage <= 100,
\* 0 <= rating <= 5, stock >= 0, non-empty category, thumbnail a URL string
\* and images a sequence of URL strings.
C12_ValidIffConstraints ==
    \A a \in AppliedOf("assertValidProduct") :
        (a.result = "returned") <=> SatisfiesEntityConstraints(a.product)

\* C13: the brand check is conditional: whatever the brand of a product is
\* (absent, empty, a string), the helper's verdict is the one it gives the
\* same product with any other brand or none; a product without a brand
\* passes whenever its other fields are valid.
C13_BrandNeverDecides ==
    \A a \in AppliedOf("assertValidProduct") :
        /\ \A b \in FieldValues("brand") :
               Verdict(assertValidProduct(With(a.product, "brand", b))) = a.result
        /\ Verdict(assertValidProduct(Without(a.product, "brand"))) = a.result

C13_Witness ==
    \E a \in AppliedOf("assertValidProduct") :
        /\ Get(a.product, "brand") = None
        /\ a.product = Without(Product(1), "brand")
        /\ a.result = "returned"

\* C14: assertValidProductsResponse(listing) passes if and only if products
\* is an array, total > 0, skip >= 0, limit > 0 and products.length <=
\* limit, so it raises on every listing with total = 0; and the search
\* tests whose scenario expects or allows an empty result do not apply it
\* to one: on a listing without products and with total = 0 the no-match
\* test and the multi-word test pass.
C14_ValidListingIff ==
    /\ \A a \in AppliedOf("assertValidProductsResponse") :
           /\ (a.result = "returned") <=>
                  /\ "products" \in DOMAIN a.response
                  /\ Get(a.response, "total") # None /\ a.response.total > 0
                  /\ a.response.skip >= 0
                  /\ a.response.limit > 0
                  /\ Len(a.response.products) <= a.response.limit
           /\ Get(a.response, "total") = Some(0) => a.result = "assertion"
    /\ \A a \in AppliedOf("searchTest") :
           /\ a.case \in {"noResults", "multiWord"}
           /\ Get(a.data, "products") = Some(<<>>)
           /\ Get(a.data, "total") = Some(0)
           => a.result = "returned"

C14_Witness ==
    \E a \in AppliedOf("assertValidProductsResponse") :
        /\ Get(a.response, "products") = Some(<<>>)
        /\ Get(a.response, "total") = Some(0)
        /\ a.response.limit = 1
        /\ a.response.skip = 0
        /\ a.result = "assertion"

\* C15: assertProductsInCategory(products, category) passes if and only if
\* every product's category equals the requested identifier exactly; a
\* product whose category differs from it in letter case only makes the
\* helper raise.
C15_ExactCategory ==
    \A a \in AppliedOf("assertProductsInCategory") :
        /\ (a.result = "returned") <=>
               \A i \in 1..Len(a.products) :
                   /\ "category" \in DOMAIN a.products[i]
                   /\ a.products[i].category = a.category
        /\ (\E i \in 1..Len(a.products) :
                /\ "category" \in DOMAIN a.products[i]
                /\ a.products[i].category # a.category
                /\ toLowerCase(a.products[i].category) = toLowerCase(a.category))
           => a.result = "assertion"

C15_Witness ==
    \E a \in AppliedOf("assertProductsInCategory") :
        /\ a.category = <<"beauty">>
        /\ Len(a.products) = 2
        /\ Get(a.products[1], "category") = Some(<<"beauty">>)
        /\ Get(a.products[2], "category") = Some(<<"Beauty">>)
        /\ a.result = "assertion"

\* The term occurs, whatever the letter case, in the title, the description
\* or the brand of the product (a brand that is absent contributes nothing).
MatchesTerm(product, term) ==
    \E f \in {"title", "description", "brand"} :
        /\ f \in DOMAIN product
        /\ includes(toLowerCase(product[f]), toLowerCase(term))

\* C16: assertProductsMatchSearch(products, term) passes if and only if,
\* for every product, the lowercased term is a substring of the lowercased
\* title, description or brand; and the verdict is the same for every
\* spelling of the term that differs in letter case only.
C16_MatchIffSubstring ==
    \A a \in AppliedOf("assertProductsMatchSearch") :
        /\ (a.result = "returned") <=>
               \A i \in 1..Len(a.products) : MatchesTerm(a.products[i], a.searchTerm)
        /\ \A other \in SearchTerms :
               toLowerCase(other) = toLowerCase(a.searchTerm) =>
                   assertProductsMatchSearch(a.products, other) = a.result

\* C17: a product whose brand is absent contributes no brand match and
\* causes no other failure: a list of such products is accepted exactly
\* when the term occurs in the title or the description of each, and the
\* helper ends by returning or by an assertion violation, never by another
\* kind of error.
C17_AbsentBrandContributesNothing ==
    \A a \in AppliedOf("assertProductsMatchSearch") :
        (a.products # <<>> /\ \A i \in 1..Len(a.products) : "brand" \notin DOMAIN a.products[i])
        => /\ a.result \in {"returned", "assertion"}
           /\ (a.result = "returned") <=>
                  \A i \in 1..Len(a.products) :
                      \/ includes(toLowerCase(a.products[i].title), toLowerCase(a.searchTerm))
                      \/ includes(toLowerCase(a.products[i].description), toLowerCase(a.searchTerm))

\* C18: for each field present in the expected partial update the helper
\* raises unless the field of actual equals it: whenever the helper passes,
\* actual agrees with expected on every field that expected contains.
C18_PassImpliesAgreement ==
    \A a \in AppliedOf("assertProductsMatch") :
        a.result = "returned" =>
            \A f \in DOMAIN a.expected : Get(a.actual, f) = Some(a.expected[f])

\* The body satisfies the schema: every required property is there and
\* every listed property that is there has the listed type.
Conforms(body, schema) ==
    /\ \A i \in 1..Len(schema.required) :
           \E k \in 1..Len(body) : body[k].name = schema.required[i]
    /\ \A i \in 1..Len(schema.properties) :
           \A k \in 1..Len(body) :
               body[k].name = schema.properties[i].name =>
                   body[k].value.type = schema.properties[i].type

\* C19: validateResponseSchema has exactly two outcomes: it returns true
\* when the body conforms to the schema and raises one error when it does
\* not; it never returns false.
C19_TrueOrRaise ==
    \A a \in AppliedOf("validateResponseSchema") :
        /\ Conforms(a.response, a.schema) => a.result = [kind |-> "returned", value |-> TRUE]
        /\ ~Conforms(a.response, a.schema) => a.result.kind = "thrown"
        /\ a.result # [kind |-> "returned", value |-> FALSE]

C19_Witness ==
    \E a \in AppliedOf("validateResponseSchema") :
        /\ ~Conforms(a.response, a.schema)
        /\ a.response = << Member("id", Num(1)), Member("title", Str(<<"text">>)) >>
        /\ a.schema = singleProductSchema
        /\ a.result.kind = "thrown"

\* The violations of a schema by a body: a required property that is
\* missing (at the root), a property of another type than listed (at its
\* own path).
Violations(body, schema) ==
    {[instancePath |-> <<>>,
      message |-> <<"must have required property '", schema.required[i], "'">>] :
        i \in {j \in 1..Len(schema.required) :
                  \A k \in 1..Len(body) : body[k].name # schema.required[j]}}
    \cup
    {[instancePath |-> <<"/", schema.properties[i].name>>,
      message |-> <<"must be ", schema.properties[i].type>>] :
        i \in {j \in 1..Len(schema.properties) :
                  \E k \in 1..Len(body) :
                      /\ body[k].name = schema.properties[j].name
                      /\ body[k].value.type # schema.properties[j].type}}

\* The line of the dump that opens the member of the given name.
MemberLine(dump, name) ==
    CHOOSE i \in 1..Len(dump) :
        Len(dump[i]) >= 5 /\ SubSeq(dump[i], 1, 5) = <<"  ", "\"", name, "\"", ": ">>

\* C20: the one error of a failed validation reports every violation, not
\* only the first: after its first line the message has one line
\* 'Path: <instance path> - <message>' per violation, 'root' standing for
\* an empty instance path, and then the pretty-printed body: an opening
\* brace, the members of the body in its own order, a closing brace.
C20_EveryViolationReported ==
    \A a \in AppliedOf("validateResponseSchema") :
        a.result.kind = "thrown" =>
            LET msg == a.result.message
                n == Cardinality(Violations(a.response, a.schema))
                dump == SubSeq(msg, n + 4, Len(msg))
            IN /\ n >= 1
               /\ Len(msg) >= n + 3
               /\ msg[1] = <<"Schema validation failed:">>
               /\ {msg[i] : i \in 2..(n + 1)} =
                      {<<"Path: ">>
                       \o (IF v.instancePath = <<>> THEN <<"root">> ELSE v.instancePath)
                       \o <<" - ">> \o v.message : v \in Violations(a.response, a.schema)}
               /\ msg[n + 2] = <<>>
               /\ msg[n + 3] = <<"Actual Response:">>
               /\ dump = stringify(a.response)
               /\ \A k \in 1..Len(a.response) :
                      \E i \in 1..Len(dump) :
                          /\ Len(dump[i]) >= 5
                          /\ SubSeq(dump[i], 1, 5) =
                                 <<"  ", "\"", a.response[k].name, "\"", ": ">>
               /\ \A k, l \in 1..Len(a.response) :
                      k < l => MemberLine(dump, a.response[k].name)
                                   < MemberLine(dump, a.response[l].name)

C20_Witness ==
    \E a \in AppliedOf("validateResponseSchema") :
        /\ a.result.kind = "thrown"
        /\ a.response = << Member("title", Str(<<"text">>)), Member("id", Str(<<"text">>)) >>
        /\ a.schema = singleProductSchema
        /\ a.result.message[2] = <<"Path: ", "root", " - ", "must have required property '", "price", "'">>
        /\ a.result.message[3] = <<"Path: ", "/", "id", " - ", "must be ", "number">>
        /\ a.result.message[6] = <<"{">>
        /\ a.result.message[7] = <<"  ", "\"", "title", "\"", ": ", "\"", "text", "\"", ",">>
        /\ a.result.message[8] = <<"  ", "\"", "id", "\"", ": ", "\"", "text", "\"">>
        /\ a.result.message[9] = <<"}">>

\* C22: created resources carry unique identifiers: any two calls of
\* generateRandomProductTitle, by the same test or by different workers,
\* within the same millisecond or not, return different titles.
C22_TitlesUnique ==
    \A i, j \in DOMAIN applied :
        /\ i # j
        /\ applied[i].name = "generateRandomProductTitle"
        /\ applied[j].name = "generateRandomProductTitle"
        => applied[i].result # applied[j].result

\* The expected value of a field is falsy: the number 0 or the empty string.
FalsyExpected(expected, f) ==
    IF f \in {"price", "rating", "stock", "discountPercentage"}
    THEN expected[f] = 0
    ELSE expected[f] = <<>>

\* C23: assertProductsMatch treats a falsy expected value as an omitted
\* field: it raises only for a field that expected contains with a truthy
\* value and that differs in actual.  So an expected price, stock or rating
\* of 0 or an empty string passes whatever actual holds in that field, and
\* a field that expected does not contain never makes it raise.
C23_FalsyAsOmitted ==
    \A a \in AppliedOf("assertProductsMatch") :
        a.result = "assertion" =>
            \E f \in DOMAIN a.expected :
                /\ ~FalsyExpected(a.expected, f)
                /\ Get(a.actual, f) # Some(a.expected[f])

C23_Witness ==
    \E a \in AppliedOf("assertProductsMatch") :
        /\ a.expected = [price |-> 0]
        /\ a.actual.price = Dec(499, 99)
        /\ a.result = "returned"

\* C24: a schema is compiled once: over any sequence of
\* validateResponseSchema calls of a process that pass the same schema (the
\* same object, as the import of a schema document is), the first call
\* compiles it and no later call does; the later calls reuse the compiled
\* validator.  (A call compiles exactly when no earlier call passed its
\* schema object.)
C24_CompiledOnce ==
    \A j \in DOMAIN applied :
        applied[j].name = "validateResponseSchema" =>
            (applied[j].compiled = None) <=>
                \E i \in 1..(j - 1) : applied[i].schema = applied[j].schema

C24_Witness ==
    /\ Len(applied) = 2
    /\ applied[1].name = "validateResponseSchema"
    /\ applied[1].schema = singleProductSchema
    /\ applied[2].schema = singleProductSchema
    /\ applied[1].compiled = Some(singleProductSchema)
    /\ applied[2].compiled = None
    /\ applied[2].ajv = {singleProductSchema}
    /\ applied[2].result.kind = "thrown"

GivenUntouched ==
    \A a \in AppliedOf("validateResponseSchema") :
        a.after.response = a.response /\ a.after.schema = a.schema

\* C30: the per-product helpers pass vacuously on an empty sequence:
\* assertProductsInCategory([], c) and assertProductsMatchSearch([], t)
\* return for every category c and term t, and so does a test body that
\* only loops over the products: on an empty listing it asserts nothing.
C30_EmptyPassesVacuously ==
    \A i \in DOMAIN applied :
        /\ applied[i].name \in {"assertProductsInCategory", "assertProductsMatchSearch",
                                "forEach"}
        /\ applied[i].products = <<>>
        => applied[i].result = "returned"

C30_Witness ==
    \E a \in AppliedOf("assertProductsInCategory") :
        /\ a.products = <<>>
        /\ a.category = <<"Beauty">>
        /\ a.result = "returned"


====
